---------------------------- MODULE Spec2Model ----------------------------
(***************************************************************************)
(* Model of the garden simulation engine: Potager.pas() and the four       *)
(* per-parcel update functions of potager.py, the plant rules of plante.py,*)
(* the insect life cycle of insecte.py and the emitters of dispositif.py.  *)
(*                                                                         *)
(* Numeric conventions.  Fractions of a parcel and humidities are counted  *)
(* in tenths (0.5 is 5).  Probabilities (mobilite, resistance,             *)
(* proba_colonisation) are counted in units of 1/Echelle, and random() is  *)
(* a draw in 0..2*Echelle-1 counted in half units, so that a draw can fall *)
(* strictly between two levels (random() < 1).  math.inf is the value Inf, *)
(* with Inf + 1 = Inf.  A Python "for x in liste" is an index into the     *)
(* list that is compared with the current length before each iteration.    *)
(* An exception that escapes from pas() is recorded in erreur and stops    *)
(* the run.                                                                *)
(*                                                                         *)
(* Spec is the garden under pas().  SpecVoisines calls voisines and        *)
(* voisinerandom on matrices with and without holes, SpecProgramme calls   *)
(* Programme.actif, SpecDispositif builds and ages a Dispositif,           *)
(* SpecAtelier calls the constructors with arguments in and out of their   *)
(* domains and calls methods on entities that stand on no parcel.          *)
(***************************************************************************)
EXTENDS Integers, Sequences, FiniteSets, Bags, TLC

\* ------------------------------------------------------------------ bounds
Longueur == 2
Largeur == 1
MaxPas == 3
MaxIter == 2
MaxInsectes == 4
Echelle == 2
MaxEcart == 1
MaxCote == 9
MaxPortee == 4
MaxCoteTrouee == 3
MaxVides == 1
MaxDebut == 5
MaxPeriode == 5
MaxAge == 12
MaxProgrammes == 2
MaxDuree == 3
MaxPv == 5
MaxPasSol == 8
MaxCoteSol == 3

\* ------------------------------------------------------- program constants
HUMIDITE_INIT == 5
DUREE_EFFET_INSECTICIDE == 5
DUREE_EFFET_ENGRAIS == 5
HUMIDITE_ARROSAGE == 5
HUMIDITE_DESSECHEMENT == 2
NB_REPAS_AFFAME == 3
Inf == 1000

GENES == {"pv_max", "esperance_vie", "mobilite", "resistance",
          "tps_entre_repro", "portee_max"}

Min(a, b) == IF a < b THEN a ELSE b
Max(a, b) == IF a > b THEN a ELSE b
PlusUn(x) == IF x = Inf THEN Inf ELSE x + 1

\* list.remove(x): drops the first occurrence of x
RECURSIVE Retirer(_, _)
Retirer(s, x) ==
  IF s = << >> THEN << >>
  ELSE IF Head(s) = x THEN Tail(s)
  ELSE << Head(s) >> \o Retirer(Tail(s), x)

RECURSIVE Somme(_, _)
Somme(f, s) == IF s = << >> THEN 0 ELSE f[Head(s)] + Somme(f, Tail(s))

Elements(s) == { s[i] : i \in 1..Len(s) }

\* ------------------------------------------------------------------- grid
\* Potager._parcelles_1d: the existing parcels, row by row
NbParcelles == Longueur * Largeur
Parcelles == 1..NbParcelles
PosX(p) == (p - 1) \div Largeur
PosY(p) == (p - 1) % Largeur
Indice(x, y) == x * Largeur + y + 1

\* Potager._voisines with portee = 1: the existing 4-connected neighbours
Voisines1(p) ==
  LET x == PosX(p)
      y == PosY(p)
  IN  (IF x + 1 < Longueur THEN { Indice(x + 1, y) } ELSE {})
      \cup (IF x # 0 THEN { Indice(x - 1, y) } ELSE {})
      \cup (IF y + 1 < Largeur THEN { Indice(x, y + 1) } ELSE {})
      \cup (IF y # 0 THEN { Indice(x, y - 1) } ELSE {})

RECURSIVE VoisinesRec(_, _)
VoisinesRec(p, portee) ==
  IF portee = 1 THEN Voisines1(p)
  ELSE Voisines1(p) \cup
       UNION { VoisinesRec(j, portee - 1) : j \in Voisines1(p) }

\* Potager.voisines, portee > 0
Voisines(p, portee) ==
  IF portee > 1 THEN VoisinesRec(p, portee) \ { p }
  ELSE VoisinesRec(p, portee)

\* ------------------------------------------- neighbours on any matrix
\* A matrix g is its dimensions and the positions << x, y >> that hold a
\* parcel; the other positions hold None.  A list whose order the code does
\* not fix (list(set(...))) is a bag: what counts is how often a parcel
\* occurs in it.
Aucune == << >>

Positions(l, w) == (0..(l - 1)) \X (0..(w - 1))

\* _parcelles of the garden of Longueur x Largeur parcels built without file
GrillePleine(l, w) ==
  [ longueur |-> l, largeur |-> w, presentes |-> Positions(l, w) ]

\* self.parcelles[x][y]: a negative index counts from the end of the list
Case(g, x, y) ==
  << IF x < 0 THEN x + g.longueur ELSE x, IF y < 0 THEN y + g.largeur ELSE y >>

\* Variant: the test on the lower edge is left out
ApresBordOublie(i) == TRUE

\* _voisines: "x != 0", the position before i is inside the matrix
ApresBord(i) == i # 0

\* _voisines: "x+1 < self._longueur", the position after i is inside
AvantBord(i, taille) == i + 1 < taille

\* _voisines: one "if ...: par = ...; if par is not None: voisines.append(par)"
Ajout(g, test, c) == IF test /\ c \in g.presentes THEN << c >> ELSE << >>

\* _voisines: the list built by the four tests, in the order of the appends
VoisinesDirectes(g, c) ==
  Ajout(g, AvantBord(c[1], g.longueur), Case(g, c[1] + 1, c[2]))
  \o Ajout(g, ApresBord(c[1]), Case(g, c[1] - 1, c[2]))
  \o Ajout(g, AvantBord(c[2], g.largeur), Case(g, c[1], c[2] + 1))
  \o Ajout(g, ApresBord(c[2]), Case(g, c[1], c[2] - 1))

\* Concatenation of the lists of a list of lists
RECURSIVE Concat(_)
Concat(listes) ==
  IF listes = << >> THEN EmptyBag ELSE Head(listes) (+) Concat(Tail(listes))

\* An ordered list seen as a bag
Sac(liste) == Concat([i \in 1..Len(liste) |-> SetToBag({ liste[i] })])

\* Variant: the set() is left out
SansDedoublonner(liste) == liste

\* list(set(liste))
Dedoublonner(liste) == SetToBag(BagToSet(liste))

\* Potager._voisines
RECURSIVE VoisinesInterne(_, _, _)
VoisinesInterne(g, c, portee) ==
  IF portee = 0 THEN SetToBag({ c })
  ELSE IF portee = 1 THEN Sac(VoisinesDirectes(g, c))
  ELSE LET voisines == VoisinesDirectes(g, c)
           suite == [i \in 1..Len(voisines) |->
                       VoisinesInterne(g, voisines[i], portee - 1)]
       IN  Dedoublonner(Sac(voisines) (+) Concat(suite))

\* Variant: only a negative range is refused
PorteeNegative(portee) == portee < 0

\* Potager.voisines: "if portee <= 0: raise ValueError"
PorteeInvalide(portee) == portee <= 0

\* Variant: the origin is left in the list
GarderOrigine(liste, c) == liste

\* Potager.voisines: lvoisines.remove(parcelle), ValueError ignored
RetirerOrigine(liste, c) == liste (-) SetToBag({ c })

\* Potager.voisines on the matrix g
VoisinesGrille(g, c, portee) ==
  IF PorteeInvalide(portee)
  THEN [ erreur |-> "ValueError", liste |-> EmptyBag ]
  ELSE [ erreur |-> "aucune",
         liste |-> IF portee > 1
                   THEN RetirerOrigine(VoisinesInterne(g, c, portee), c)
                   ELSE VoisinesInterne(g, c, portee) ]

\* Variant: a parcel with a single neighbour is told it has none
SansVoisineOuSeule(liste) == BagCardinality(liste) <= 1

\* Potager.voisinerandom: "voisines == [None] or not voisines"; None is never
\* appended by _voisines, so the first test is never true
SansVoisine(liste) == liste = EmptyBag

\* Potager.voisinerandom with the default range: the values it can return
VoisineRandom(g, c) ==
  LET voisines == VoisinesGrille(g, c, 1).liste
  IN  IF SansVoisine(voisines) THEN { Aucune } ELSE BagToSet(voisines)

\* ------------------------------------------------------------ constructors
\* Insecte.__init__ (arguments already in their domains)
NouvelInsecte(esp, sexe, pvm, vie, mob, res, tps, portee, enfant) ==
  [ espece |-> esp, sexe |-> sexe, pv_max |-> pvm,
    esperance_vie |-> vie, mobilite |-> mob,
    resistance |-> res, tps_entre_repro |-> tps,
    portee_max |-> portee,
    derniere_repro |-> Inf, dernier_repas |-> Inf, repas_consecutifs |-> 0,
    maturite |-> IF enfant THEN tps * 2 ELSE 0,
    pv |-> IF enfant THEN Max(1, pvm \div 2) ELSE pvm,
    age |-> 0, parcelle |-> 0 ]

\* Plante.__init__ / Drageon.__init__; proba_colonisation = -1 for a Plante
NouvellePlante(esp, mat, nb, entre, hmin, hmax, surf, drageon, proba) ==
  [ espece |-> esp, tps_maturation |-> mat,
    nb_recoltes_potentielles |-> nb,
    tps_entre_recoltes |-> entre,
    hum_min |-> hmin, hum_max |-> hmax,
    surface_parcelle |-> surf,
    drageon |-> drageon, proba_colonisation |-> proba,
    tps_sous_insecticide |-> 0, tps_croissance |-> 0,
    nb_recoltes_effectuees |-> 0, age |-> 0, parcelle |-> 0 ]

\* Variant: the activation lasts one age longer
ProgrammeActifLarge(prog, age) ==
  /\ age >= prog.debut
  /\ ((age - prog.debut) % prog.periode) <= prog.duree

\* Programme.actif
ProgrammeActif(prog, age) ==
  /\ age >= prog.debut
  /\ ((age - prog.debut) % prog.periode) < prog.duree

\* Variant: the programmes are asked about the age of the next pas
DispositifActifLendemain(d) ==
  { d.programmes[i].produit :
      i \in { j \in 1..Len(d.programmes) :
                ProgrammeActif(d.programmes[j], d.age + 1) } }

\* Dispositif.actif: the products spread at this age
DispositifActif(d) ==
  { d.programmes[i].produit :
      i \in { j \in 1..Len(d.programmes) : ProgrammeActif(d.programmes[j], d.age) } }

\* ------------------------------------------------------------------ state
VARIABLES
  pas,            \* Potager._pas
  nb_iter,        \* Potager._nb_iter
  retours,        \* values returned by the calls of Potager.pas(), in order
  erreur,         \* exception that escaped from pas(), "aucune" if none
  phase,          \* position in pas(): the update function being swept
  k,              \* index in _parcelles_1d of the parcel being updated
  boucle,         \* number of the for loop inside the update function
  idx,            \* index of the list iterator of that loop
  plantes,        \* every Plante object created, by identifier
  par_plantes,    \* Parcelle._plantes, as identifiers
  insectes,       \* every Insecte object created, by identifier
  par_insectes,   \* Parcelle._insectes, as identifiers
  sol,            \* Parcelle._humidite, _engrais, _insecticide, _arrose
  dispositifs,    \* Parcelle._dispositif (portee = 0: no device)
  recolte,        \* Potager._recolte
  ordre,          \* observer: update functions begun on each parcel this pas
  finies,         \* observer: number of them finished on each parcel
  appels,         \* observer: methods invoked on each insect this pas
  instantane,     \* observer: Parcelle._insectes when update_insectes began
  appels_maj,     \* observer: methods invoked during this update_insectes
  nes,            \* observer: insects born during this pas
  berceau,        \* observer: parcel where each insect was first placed
  plantes_nees,   \* observer: plants created during this pas
  appels_plante,  \* observer: methods invoked on each plant this pas
  obs_fruits,     \* observer: the last update_fruits call
  obs_repro,      \* observer: the last reproduire call
  obs_retour,     \* observer: the last update_developpement, coloniser,
                  \* se_nourrir or bouger call and the value it returned
  epandage,       \* observer: value of _pas when fertilizer and insecticide
                  \* last reached each parcel, -1 if never
  grille,         \* Potager._longueur, _largeur and the matrix _parcelles
  requete,        \* the last call of voisines / voisinerandom and its outcome
  essai,          \* a Programme and the last call of its method actif
  banc,           \* a Dispositif built and aged outside a garden
  atelier         \* the last constructor call, the object it built and the
                  \* last method called on that object

position == << phase, k, boucle, idx >>
monde == << plantes, par_plantes, insectes, par_insectes, sol, dispositifs,
            recolte >>
horloge == << pas, nb_iter, retours, erreur >>
obs_pas == << ordre, finies >>
obs_insectes == << appels, instantane, appels_maj, nes, berceau >>
obs_plantes == << plantes_nees, appels_plante >>
annexe == << grille, requete, essai, banc, atelier >>
potager_vars == << pas, nb_iter, retours, erreur, phase, k, boucle, idx,
                   plantes, par_plantes, insectes, par_insectes, sol,
                   dispositifs, recolte, ordre, finies, appels, instantane,
                   appels_maj, nes, berceau, plantes_nees, appels_plante,
                   obs_fruits, obs_repro, obs_retour, epandage >>
vars == << pas, nb_iter, retours, erreur, phase, k, boucle, idx, plantes,
           par_plantes, insectes, par_insectes, sol, dispositifs, recolte,
           ordre, finies, appels, instantane, appels_maj, nes, berceau,
           plantes_nees, appels_plante, obs_fruits, obs_repro, obs_retour,
           epandage, grille, requete, essai, banc, atelier >>

PHASES == << "plantes", "insectes", "dispositif", "parcelle" >>

\* Parcelle.surface_totale, in tenths
SurfaceTotale(pl, liste) ==
  Somme([i \in 1..Len(pl) |-> pl[i].surface_parcelle], liste)

AucunDispositif == [ portee |-> 0, programmes |-> << >>, age |-> 0 ]

Programme(produit, debut, duree, periode) ==
  [ produit |-> produit, debut |-> debut, duree |-> duree,
    periode |-> periode ]

\* ------------------------------------------------------------------- Init
\* A garden as the Potager constructor builds it: every parcel exists with
\* the default humidity; a plant stands on the first parcel, with a couple
\* of insects (Couple), with one insect that moves (Voyageur) or alone, as a
\* drageon that takes half a parcel and always spreads (Bouture); a device
\* stands on the last parcel.
DispositifInit ==
  [ portee |-> 1, age |-> 0,
    programmes |-> << Programme("eau", 0, 1, 2),
                      Programme("insecticide", 1, 1, 2),
                      Programme("engrais", 1, 1, 3) >> ]

\* A device that spreads fertilizer once in a long run
DispositifLent ==
  [ portee |-> 1, age |-> 0,
    programmes |-> << Programme("eau", 0, 1, 2),
                      Programme("insecticide", 1, 1, 2),
                      Programme("engrais", 1, 1, 2 * MaxPasSol) >> ]

Couple(portee_max) ==
  [ plantes |-> << [ NouvellePlante("tomate", 1, 1, 1, 2, 8, 4, FALSE, -1)
                       EXCEPT !.parcelle = 1 ] >>,
    insectes |->
      << [ NouvelInsecte("puceron", TRUE, 1, 2, 0, 1, 2, 1, FALSE)
             EXCEPT !.parcelle = 1 ],
         [ NouvelInsecte("puceron", FALSE, 1, 2, 0, 1, 2, portee_max, FALSE)
             EXCEPT !.parcelle = 1 ] >>,
    dispositif |-> DispositifInit ]
Voyageur ==
  [ plantes |-> << [ NouvellePlante("menthe", 1, 1, 1, 2, 8, 4, TRUE, 1)
                       EXCEPT !.parcelle = 1 ] >>,
    insectes |->
      << [ NouvelInsecte("doryphore", TRUE, 1, 2, 1, 1, 2, 1, FALSE)
             EXCEPT !.parcelle = 1 ] >>,
    dispositif |-> DispositifInit ]
Bouture ==
  [ plantes |-> << [ NouvellePlante("menthe", 1, 1, 1, 2, 8, 5, TRUE, Echelle)
                       EXCEPT !.parcelle = 1 ] >>,
    insectes |-> << >>,
    dispositif |-> DispositifLent ]
Scenarios ==
  { Couple(portee_max) : portee_max \in 0..1 } \cup { Voyageur, Bouture }

ObsFruitsInit ==
  [ plante |-> 0, mature |-> FALSE, productive |-> FALSE, croissance |-> 0,
    retour |-> FALSE ]
ObsReproInit ==
  [ cas |-> "aucun", insecte |-> 0, partenaire |-> 0, termine |-> TRUE,
    portee |-> << >> ]

ObsRetourInit ==
  [ methode |-> "aucune", sujet |-> 0, dev |-> 0, retour |-> FALSE,
    tente |-> FALSE ]

InitPotager ==
  /\ pas = 0
  /\ nb_iter \in 1..MaxIter
  /\ retours = << >>
  /\ erreur = "aucune"
  /\ phase = "repos" /\ k = 0 /\ boucle = 0 /\ idx = 0
  /\ \E sc \in Scenarios :
       /\ plantes = sc.plantes /\ insectes = sc.insectes
       /\ dispositifs = [p \in Parcelles |->
                           IF p = NbParcelles THEN sc.dispositif
                           ELSE AucunDispositif]
  /\ par_plantes = [p \in Parcelles |-> IF p = 1 THEN << 1 >> ELSE << >>]
  /\ par_insectes = [p \in Parcelles |->
                       IF p = 1 THEN [i \in 1..Len(insectes) |-> i]
                       ELSE << >>]
  /\ sol = [p \in Parcelles |->
              [ humidite |-> HUMIDITE_INIT, engrais |-> 0, insecticide |-> 0,
                arrose |-> FALSE ]]
  /\ recolte = << >>
  /\ ordre = [p \in Parcelles |-> << >>]
  /\ finies = [p \in Parcelles |-> 0]
  /\ appels = [i \in 1..Len(insectes) |-> << >>]
  /\ instantane = << >>
  /\ appels_maj = [i \in 1..Len(insectes) |-> << >>]
  /\ nes = {}
  /\ berceau = [i \in 1..Len(insectes) |-> 1]
  /\ plantes_nees = {}
  /\ appels_plante = << << >> >>
  /\ obs_fruits = ObsFruitsInit
  /\ obs_repro = ObsReproInit
  /\ obs_retour = ObsRetourInit
  /\ epandage =
       [p \in Parcelles |-> [ eau |-> -1, engrais |-> -1, insecticide |-> -1 ]]

\* No call of voisines or voisinerandom made yet
RequeteInit ==
  [ op |-> "aucun", parcelle |-> Aucune, portee |-> 1, erreur |-> "aucune",
    liste |-> EmptyBag, retour |-> Aucune ]

\* A Programme on which actif has not been called yet
EssaiInit(prog) == [ prog |-> prog, age |-> -1, retour |-> FALSE ]

\* No Dispositif built outside the garden
BancInit ==
  [ etat |-> "neant", erreur |-> "aucune",
    demande |-> [ portee |-> 0, programmes |-> << >> ],
    d |-> AucunDispositif, actif |-> {} ]

\* No object built outside the garden
AtelierInit ==
  [ classe |-> "aucune", arguments |-> Aucune, erreur |-> "aucune",
    objet |-> Aucune, appel |-> "aucun" ]

\* The garden, and nothing called outside pas()
InitAnnexe ==
  /\ grille = GrillePleine(Longueur, Largeur)
  /\ requete = RequeteInit
  /\ essai = EssaiInit(Programme("eau", 0, 1, 1))
  /\ banc = BancInit
  /\ atelier = AtelierInit

Init == InitPotager /\ InitAnnexe

\* ------------------------------------------------------------ Potager.pas
\* Variant: the budget is compared with <= instead of <
RetourPasTardif(p, n) == p <= n

\* Variant: only the step that reaches the budget returns false
RetourPasSansFin(p, n) == p # n

\* Value returned by pas() once _pas has been incremented
RetourPas(p, n) == p < n

\* Variant: the devices are swept before the insects
PhaseSuivanteInversee(f) ==
  CASE f = "plantes" -> "dispositif"
    [] f = "dispositif" -> "insectes"
    [] f = "insectes" -> "parcelle"
    [] OTHER -> "fin"

\* The update function that follows f in the tuple swept by pas()
PhaseSuivante(f) ==
  CASE f = "plantes" -> "insectes"
    [] f = "insectes" -> "dispositif"
    [] f = "dispositif" -> "parcelle"
    [] OTHER -> "fin"

\* Number of calls of pas() that are followed: a garden without insect is
\* followed longer
Horizon == IF insectes = << >> THEN MaxPasSol ELSE MaxPas

\* Entering pas(): the first update function starts on the first parcel
Debut ==
  /\ UNCHANGED << annexe, obs_retour, epandage >>
  /\ phase = "repos"
  /\ erreur = "aucune"
  /\ pas < Horizon
  /\ phase' = PHASES[1] /\ k' = 1 /\ boucle' = 1 /\ idx' = 1
  /\ ordre' = [p \in Parcelles |-> IF p = 1 THEN << PHASES[1] >> ELSE << >>]
  /\ finies' = [p \in Parcelles |-> 0]
  /\ appels' = [i \in 1..Len(insectes) |-> << >>]
  /\ instantane' = << >>
  /\ appels_maj' = [i \in 1..Len(insectes) |-> << >>]
  /\ nes' = {}
  /\ plantes_nees' = {}
  /\ appels_plante' = [i \in 1..Len(plantes) |-> << >>]
  /\ UNCHANGED << monde, horloge, berceau, obs_fruits, obs_repro >>

\* The update function f returns on parcel p: pas() calls it on the next
\* parcel, or starts the next function on the first parcel.
Retour(f, p) ==
  /\ finies' = [finies EXCEPT ![p] = @ + 1]
  /\ boucle' = 1 /\ idx' = 1
  /\ IF p < NbParcelles
       THEN /\ phase' = f /\ k' = p + 1
            /\ ordre' = [ordre EXCEPT ![p + 1] = Append(@, f)]
            /\ instantane' = IF f = "insectes" THEN par_insectes'[p + 1]
                             ELSE instantane
       ELSE /\ phase' = PhaseSuivante(f)
            /\ k' = IF PhaseSuivante(f) = "fin" THEN 0 ELSE 1
            /\ ordre' = IF PhaseSuivante(f) = "fin" THEN ordre
                        ELSE [ordre EXCEPT ![1] = Append(@, PhaseSuivante(f))]
            /\ instantane' = IF PhaseSuivante(f) = "insectes"
                             THEN par_insectes'[1] ELSE instantane
  /\ appels_maj' = IF phase' = "insectes"
                   THEN [i \in 1..Len(insectes') |-> << >>] ELSE appels_maj

\* End of pas(): the counter advances and the result is returned
FinPas ==
  /\ UNCHANGED << annexe, obs_retour, epandage >>
  /\ phase = "fin"
  /\ pas' = pas + 1
  /\ retours' = Append(retours, RetourPas(pas + 1, nb_iter))
  /\ phase' = "repos" /\ k' = 0 /\ boucle' = 0 /\ idx' = 0
  /\ UNCHANGED << nb_iter, erreur, monde, obs_pas, obs_insectes, obs_plantes,
                  obs_fruits, obs_repro >>

\* --------------------------------------------------- Parcelle.update_plantes
\* Plante.mature
Mature(pl) == pl.age >= pl.tps_maturation

\* Plante.productive
Productive(pl) ==
  Mature(pl) /\ pl.nb_recoltes_effectuees < pl.nb_recoltes_potentielles

\* Variant: the number of harvests already made is not looked at
RecoltableSansLimite(pl) ==
  Mature(pl) /\ pl.tps_croissance >= pl.tps_entre_recoltes

\* Condition under which update_fruits harvests
Recoltable(pl) ==
  (Mature(pl) /\ Productive(pl)) /\ pl.tps_croissance >= pl.tps_entre_recoltes

\* Variant: the insects on the parcel do not slow the plant
DevSansInsecte(pl, s, nb_ins) ==
  LET hum_ok == IF s.humidite >= pl.hum_min /\ s.humidite <= pl.hum_max
                THEN 1 ELSE 0
      p_engrais == IF s.engrais > 0 THEN 1 ELSE 0
  IN  Max(0, (1 + p_engrais) * (1 + hum_ok))

\* Value dev computed by update_developpement
Dev(pl, s, nb_ins) ==
  LET p_insecte == IF nb_ins # 0 THEN 1 ELSE 0
      hum_ok == IF s.humidite >= pl.hum_min /\ s.humidite <= pl.hum_max
                THEN 1 ELSE 0
      p_engrais == IF s.engrais > 0 THEN 1 ELSE 0
  IN  Max(0, (1 + p_engrais) * (1 + hum_ok - p_insecte))

\* Variant: the footprint of the new plant is left out of the test
ColonisableSansSurface(surface_occupee, surface) == 10 - surface_occupee > 0

\* Test of coloniser() on the room left on a neighbouring parcel
Colonisable(surface_occupee, surface) == 10 - surface_occupee > surface

\* First loop of update_plantes: Plante.update_developpement
UpdateDeveloppement ==
  /\ UNCHANGED << annexe, epandage >>
  /\ phase = "plantes" /\ boucle = 1 /\ erreur = "aucune"
  /\ idx <= Len(par_plantes[k])
  /\ LET id == par_plantes[k][idx]
         pl == plantes[id]
         dev == Dev(pl, sol[pl.parcelle], Len(par_insectes[pl.parcelle]))
         grandie == [pl EXCEPT !.age = @ + dev]
     IN  plantes' = [plantes EXCEPT ![id] =
                       IF Mature(grandie)
                       THEN [grandie EXCEPT !.tps_croissance = @ + dev]
                       ELSE grandie]
         /\ appels_plante' = [appels_plante EXCEPT ![id] =
                                Append(@, "update_developpement")]
         /\ obs_retour' = [ methode |-> "update_developpement", sujet |-> id,
                            dev |-> dev, retour |-> FALSE, tente |-> FALSE ]
  /\ idx' = idx + 1
  /\ UNCHANGED << phase, k, boucle, par_plantes, insectes, par_insectes, sol,
                  dispositifs, recolte, horloge, obs_pas, obs_insectes,
                  plantes_nees, obs_fruits, obs_repro >>

\* Variant: the fruit carries the age of the plant
FruitAge(pl) == << pl.espece, pl.age >>

\* The tuple fruit that update_fruits hands to the garden
Fruit(pl) == << pl.espece, pl.tps_sous_insecticide >>

\* Variant: an entry the log already holds is not written again
AjouterRecolteUnique(journal, entree) ==
  IF << entree[1], entree[2] >> \in Elements(journal) THEN journal
  ELSE Append(journal, << entree[1], entree[2] >>)

\* Potager.ajouter_recolte: the entry, a string and an integer, goes last
AjouterRecolte(journal, entree) == Append(journal, << entree[1], entree[2] >>)

\* Second loop of update_plantes: Plante.update_fruits
UpdateFruits ==
  /\ UNCHANGED << annexe, obs_retour, epandage >>
  /\ phase = "plantes" /\ boucle = 2 /\ erreur = "aucune"
  /\ idx <= Len(par_plantes[k])
  /\ LET id == par_plantes[k][idx]
         pl == plantes[id]
     IN  /\ IF Recoltable(pl)
              THEN /\ plantes' = [plantes EXCEPT ![id] =
                                    [pl EXCEPT !.tps_croissance = 0,
                                               !.nb_recoltes_effectuees = @ + 1]]
                   /\ recolte' = AjouterRecolte(recolte, Fruit(pl))
              ELSE UNCHANGED << plantes, recolte >>
         /\ obs_fruits' = [ plante |-> id, mature |-> Mature(pl),
                            productive |-> Productive(pl),
                            croissance |-> pl.tps_croissance,
                            retour |-> Recoltable(pl) ]
         /\ appels_plante' = [appels_plante EXCEPT ![id] =
                                Append(@, "update_fruits")]
  /\ idx' = idx + 1
  /\ UNCHANGED << phase, k, boucle, par_plantes, insectes, par_insectes, sol,
                  dispositifs, horloge, obs_pas, obs_insectes, plantes_nees,
                  obs_repro >>

\* Third loop of update_plantes: Drageon.coloniser on the drageons
Coloniser ==
  /\ UNCHANGED << annexe, epandage >>
  /\ phase = "plantes" /\ boucle = 3 /\ erreur = "aucune"
  /\ idx <= Len(par_plantes[k])
  /\ LET id == par_plantes[k][idx]
         pl == plantes[id]
         colonisables ==
           { v \in Voisines(pl.parcelle, 1) :
               Colonisable(SurfaceTotale(plantes, par_plantes[v]),
                           pl.surface_parcelle) }
     IN  /\ \E tirage \in 0..(2 * Echelle - 1) :
              /\ IF /\ pl.drageon
                    /\ Mature(pl)
                    /\ ~ (tirage > 2 * pl.proba_colonisation)
                    /\ colonisables # {}
                   THEN \E colonie \in colonisables :
                          /\ plantes' = Append(plantes,
                               [ NouvellePlante(pl.espece, pl.tps_maturation,
                                   pl.nb_recoltes_potentielles,
                                   pl.tps_entre_recoltes, pl.hum_min,
                                   pl.hum_max, pl.surface_parcelle, TRUE,
                                   pl.proba_colonisation)
                                 EXCEPT !.parcelle = colonie ])
                          /\ par_plantes' =
                               [par_plantes EXCEPT ![colonie] =
                                  Append(@, Len(plantes) + 1)]
                          /\ plantes_nees' =
                               plantes_nees \cup { Len(plantes) + 1 }
                   ELSE UNCHANGED << plantes, par_plantes, plantes_nees >>
              /\ obs_retour' =
                   IF pl.drageon
                   THEN [ methode |-> "coloniser", sujet |-> id, dev |-> 0,
                          tente |-> Mature(pl)
                                      /\ ~ (tirage > 2 * pl.proba_colonisation),
                          retour |-> Len(plantes') > Len(plantes) ]
                   ELSE obs_retour
         /\ appels_plante' =
              IF pl.drageon
              THEN [i \in 1..Len(plantes') |->
                      IF i = id THEN Append(appels_plante[i], "coloniser")
                      ELSE IF i > Len(plantes) THEN << >>
                      ELSE appels_plante[i]]
              ELSE appels_plante
  /\ idx' = idx + 1
  /\ UNCHANGED << phase, k, boucle, insectes, par_insectes, sol, dispositifs,
                  recolte, horloge, obs_pas, obs_insectes, obs_fruits,
                  obs_repro >>

\* A loop of update_plantes is exhausted: next loop, or the function returns
FinBouclePlantes ==
  /\ UNCHANGED << annexe, obs_retour, epandage >>
  /\ phase = "plantes" /\ erreur = "aucune"
  /\ idx > Len(par_plantes[k])
  /\ UNCHANGED << monde, horloge, appels, nes, berceau, obs_plantes,
                  obs_fruits, obs_repro >>
  /\ IF boucle < 3
       THEN /\ boucle' = boucle + 1 /\ idx' = 1
            /\ UNCHANGED << phase, k, obs_pas, instantane, appels_maj >>
       ELSE Retour("plantes", k)

\* -------------------------------------------------- Parcelle.update_insectes
\* Variant: the last meal is not looked at
DisponibleSansRepas(ins) ==
  /\ ins.derniere_repro > ins.tps_entre_repro
  /\ ins.age >= ins.maturite

\* Variant: every insect is available, a newborn as well
DisponibleDesLaNaissance(ins) == ins.derniere_repro > ins.tps_entre_repro

\* Insecte.disponible
Disponible(ins) ==
  /\ ins.derniere_repro > ins.tps_entre_repro
  /\ ins.age >= ins.maturite
  /\ ins.dernier_repas < 3

\* Insecte.partenaires: identifiers of the valid partners on the parcel
Partenaires(ins, tous, liste) ==
  { i \in Elements(liste) :
      /\ Disponible(tous[i])
      /\ tous[i].sexe # ins.sexe
      /\ tous[i].espece = ins.espece }

\* Insecte.mutation: normalvariate(gene, 0.05), within MaxEcart units
Mutation(gene) == { gene + e : e \in (0 - MaxEcart)..MaxEcart }

\* randint(1, portee_max): the litter sizes that can be drawn
TaillesPortee(portee_max) == 1..portee_max

\* Normalisation of the genes of a child in reproduire()
Normalise(enf) ==
  [ pv_max |-> Max(1, enf.pv_max),
    esperance_vie |-> Max(1, enf.esperance_vie),
    mobilite |-> Min(Echelle, Max(0, enf.mobilite)),
    resistance |-> Min(Echelle, Max(0, enf.resistance)),
    tps_entre_repro |-> Max(0, enf.tps_entre_repro),
    portee_max |-> Max(0, enf.portee_max) ]

\* Genes a child of a and b can receive: a mix that is neither all of a nor
\* all of b, then at most one mutated gene, then the normalisation
GenesEnfant(a, b) ==
  LET melanges ==
        { [g \in GENES |-> IF ind[g] = 0 THEN a[g] ELSE b[g]] :
            ind \in { f \in [GENES -> {0, 1}] :
                        /\ \E g \in GENES : f[g] = 0
                        /\ \E g \in GENES : f[g] = 1 } }
      mutes ==
        UNION { UNION { { [m EXCEPT ![g] = v] : v \in Mutation(m[g]) } :
                          g \in GENES } : m \in melanges }
  IN  { Normalise(e) : e \in melanges \cup mutes }

\* The children reproduire() can build for parents a and b
Enfants(a, b) ==
  { NouvelInsecte(a.espece, sexe, e.pv_max, e.esperance_vie, e.mobilite,
                  e.resistance, e.tps_entre_repro, e.portee_max, TRUE) :
      sexe \in BOOLEAN, e \in GenesEnfant(a, b) }

\* Variant: the health gained by a meal is not capped
PvRepasSansPlafond(ins, repas) ==
  IF repas >= 3 THEN ins.pv + 1 ELSE ins.pv

\* Variant: the health rises from the second meal in a row
PvRepasDeuxieme(ins, repas) ==
  IF repas >= 2 THEN Min(ins.pv + 1, ins.pv_max) ELSE ins.pv

\* Health after a meal (se_nourrir, a plant is present)
PvRepas(ins, repas) ==
  IF repas >= 3 THEN Min(ins.pv + 1, ins.pv_max) ELSE ins.pv

\* Health after a missed meal
PvJeune(ins) == Max(ins.pv - 1, 0)

\* Movement probability of bouger(), in units of 1/(2 * Echelle)
ProbaMobilite(ins) ==
  LET base == 2 * ins.mobilite
      affame == IF ins.dernier_repas >= NB_REPAS_AFFAME THEN base * 2
                ELSE base
  IN  IF 5 * ins.pv < ins.pv_max THEN affame \div 2 ELSE affame

Note(journal, id, methode) == [journal EXCEPT ![id] = Append(@, methode)]

\* First loop of update_insectes: Insecte.survivre
Survivre ==
  /\ UNCHANGED << annexe, obs_retour, epandage >>
  /\ phase = "insectes" /\ boucle = 1 /\ erreur = "aucune"
  /\ idx <= Len(par_insectes[k])
  /\ LET id == par_insectes[k][idx]
         ins == insectes[id]
     IN  /\ \E tirage \in 0..(2 * Echelle - 1) :
              LET mort == \/ ins.pv <= 0
                          \/ /\ sol[ins.parcelle].insecticide > 0
                             /\ tirage > 2 * ins.resistance
                          \/ ins.age > ins.esperance_vie
              IN  par_insectes' =
                    IF mort
                    THEN [par_insectes EXCEPT ![ins.parcelle] = Retirer(@, id)]
                    ELSE par_insectes
         /\ appels' = Note(appels, id, "survivre")
         /\ appels_maj' = Note(appels_maj, id, "survivre")
  /\ idx' = idx + 1
  /\ UNCHANGED << phase, k, boucle, plantes, par_plantes, insectes, sol,
                  dispositifs, recolte, horloge, obs_pas, instantane, nes,
                  berceau, obs_plantes, obs_fruits, obs_repro >>

\* Second loop of update_insectes: Insecte.se_nourrir
SeNourrir ==
  /\ UNCHANGED << annexe, epandage >>
  /\ phase = "insectes" /\ boucle = 2 /\ erreur = "aucune"
  /\ idx <= Len(par_insectes[k])
  /\ LET id == par_insectes[k][idx]
         ins == insectes[id]
     IN  /\ insectes' = [insectes EXCEPT ![id] =
              IF Len(par_plantes[ins.parcelle]) > 0
              THEN [ins EXCEPT !.dernier_repas = 0,
                               !.repas_consecutifs = @ + 1,
                               !.pv = PvRepas(ins, ins.repas_consecutifs + 1)]
              ELSE [ins EXCEPT !.dernier_repas = PlusUn(@),
                               !.repas_consecutifs = 0,
                               !.pv = PvJeune(ins)]]
         /\ obs_retour' = [ methode |-> "se_nourrir", sujet |-> id,
                            dev |-> 0, tente |-> FALSE,
                            retour |-> Len(par_plantes[ins.parcelle]) > 0 ]
         /\ appels' = Note(appels, id, "se_nourrir")
         /\ appels_maj' = Note(appels_maj, id, "se_nourrir")
  /\ idx' = idx + 1
  /\ UNCHANGED << phase, k, boucle, plantes, par_plantes, par_insectes, sol,
                  dispositifs, recolte, horloge, obs_pas, instantane, nes,
                  berceau, obs_plantes, obs_fruits, obs_repro >>

\* Third loop of update_insectes: Insecte.reproduire, and the children it
\* returns are welcomed on the parcel being updated
Reproduire ==
  /\ UNCHANGED << annexe, obs_retour, epandage >>
  /\ phase = "insectes" /\ boucle = 3 /\ erreur = "aucune"
  /\ idx <= Len(par_insectes[k])
  /\ LET id == par_insectes[k][idx]
         ins == [insectes[id] EXCEPT !.derniere_repro = PlusUn(@)]
         tous == [insectes EXCEPT ![id] = ins]
         partenaires ==
           IF ins.parcelle = 0 THEN {}
           ELSE Partenaires(ins, tous, par_insectes[ins.parcelle])
     IN  /\ IF (~ Disponible(ins)) \/ partenaires = {}
              THEN /\ insectes' = tous
                   /\ UNCHANGED << par_insectes, erreur, nes >>
                   /\ appels' = Note(appels, id, "reproduire")
                   /\ appels_maj' = Note(appels_maj, id, "reproduire")
                   /\ berceau' = berceau
                   /\ obs_repro' = [ cas |-> "seul", insecte |-> id,
                                     partenaire |-> 0, termine |-> TRUE,
                                     portee |-> << >> ]
              ELSE \E partenaire \in partenaires :
                     IF TaillesPortee(tous[partenaire].portee_max) = {}
                       THEN \* randint(1, 0) raises ValueError
                            /\ insectes' = tous
                            /\ erreur' = "ValueError"
                            /\ UNCHANGED << par_insectes, nes, berceau >>
                            /\ appels' = Note(appels, id, "reproduire")
                            /\ appels_maj' = Note(appels_maj, id, "reproduire")
                            /\ obs_repro' = [ cas |-> "candidats",
                                              insecte |-> id,
                                              partenaire |-> partenaire,
                                              termine |-> FALSE,
                                              portee |-> << >> ]
                       ELSE \E t_portee \in
                              TaillesPortee(tous[partenaire].portee_max) :
                              /\ Len(insectes) + t_portee <= MaxInsectes
                              /\ \E portee \in
                                   [1..t_portee -> Enfants(ins, tous[partenaire])] :
                                   LET nouveaux ==
                                         [i \in 1..t_portee |-> Len(insectes) + i]
                                       vide == [i \in 1..t_portee |-> << >>]
                                   IN
                                   /\ insectes' =
                                        [tous EXCEPT
                                           ![id].derniere_repro = 0,
                                           ![partenaire].derniere_repro = 0]
                                        \o [i \in 1..t_portee |->
                                              [portee[i] EXCEPT !.parcelle = k]]
                                   /\ par_insectes' =
                                        [par_insectes EXCEPT ![k] = @ \o nouveaux]
                                   /\ erreur' = erreur
                                   /\ nes' = nes \cup Elements(nouveaux)
                                   /\ berceau' =
                                        berceau \o [i \in 1..t_portee |-> k]
                                   /\ appels' =
                                        Note(appels, id, "reproduire") \o vide
                                   /\ appels_maj' =
                                        Note(appels_maj, id, "reproduire") \o vide
                                   /\ obs_repro' =
                                        [ cas |-> "candidats", insecte |-> id,
                                          partenaire |-> partenaire,
                                          termine |-> TRUE,
                                          portee |-> nouveaux ]
  /\ idx' = idx + 1
  /\ UNCHANGED << phase, k, boucle, plantes, par_plantes, sol, dispositifs,
                  recolte, pas, nb_iter, retours, obs_pas, instantane,
                  obs_plantes, obs_fruits >>

\* Variant: the insect is not removed from the parcel it leaves
AccueillirSansRetrait(listes, ins, id, p) == [listes EXCEPT ![p] = Append(@, id)]

\* Variant: the insect leaves its parcel and is put on no list
AccueillirSansAjout(listes, ins, id, p) ==
  IF ins.parcelle # 0 THEN [listes EXCEPT ![ins.parcelle] = Retirer(@, id)]
  ELSE listes

\* Variant: the insect is put at the head of the list of its new parcel
AccueillirEnTete(listes, ins, id, p) ==
  LET quittee == IF ins.parcelle # 0
                 THEN [listes EXCEPT ![ins.parcelle] = Retirer(@, id)]
                 ELSE listes
  IN  [quittee EXCEPT ![p] = << id >> \o @]

\* Parcelle.accueillir: the insect leaves its parcel for parcel p
Accueillir(listes, ins, id, p) ==
  LET quittee == IF ins.parcelle # 0
                 THEN [listes EXCEPT ![ins.parcelle] = Retirer(@, id)]
                 ELSE listes
  IN  [quittee EXCEPT ![p] = Append(@, id)]

\* Fourth loop of update_insectes: Insecte.bouger
Bouger ==
  /\ UNCHANGED << annexe, epandage >>
  /\ phase = "insectes" /\ boucle = 4 /\ erreur = "aucune"
  /\ idx <= Len(par_insectes[k])
  /\ LET id == par_insectes[k][idx]
         ins == insectes[id]
         voisines == Voisines(ins.parcelle, 1)
     IN  /\ \E tirage \in 0..(2 * Echelle - 1) :
              /\ IF tirage < ProbaMobilite(ins) /\ voisines # {}
                   THEN \E voisin \in voisines :
                          /\ par_insectes' =
                               Accueillir(par_insectes, ins, id, voisin)
                          /\ insectes' =
                               [insectes EXCEPT ![id].parcelle = voisin]
                   ELSE UNCHANGED << insectes, par_insectes >>
              /\ obs_retour' =
                   [ methode |-> "bouger", sujet |-> id, dev |-> 0,
                     tente |-> tirage < ProbaMobilite(ins),
                     retour |-> tirage < ProbaMobilite(ins) /\ voisines # {} ]
         /\ appels' = Note(appels, id, "bouger")
         /\ appels_maj' = Note(appels_maj, id, "bouger")
  /\ idx' = idx + 1
  /\ UNCHANGED << phase, k, boucle, plantes, par_plantes, sol, dispositifs,
                  recolte, horloge, obs_pas, instantane, nes, berceau,
                  obs_plantes, obs_fruits, obs_repro >>

\* A loop of update_insectes is exhausted: next loop, or the function returns
FinBoucleInsectes ==
  /\ UNCHANGED << annexe, obs_retour, epandage >>
  /\ phase = "insectes" /\ erreur = "aucune"
  /\ idx > Len(par_insectes[k])
  /\ UNCHANGED << monde, horloge, appels, nes, berceau, obs_plantes,
                  obs_fruits, obs_repro >>
  /\ IF boucle < 4
       THEN /\ boucle' = boucle + 1 /\ idx' = 1
            /\ UNCHANGED << phase, k, obs_pas, instantane, appels_maj >>
       ELSE Retour("insectes", k)

\* ------------------------------------------------ Parcelle.update_dispositif
\* Parcelle.arroser
Arroser(s) ==
  [s EXCEPT !.humidite = Min(@ + HUMIDITE_ARROSAGE, 10), !.arrose = TRUE]

\* Parcelle.mettre_engrais
MettreEngrais(s) == [s EXCEPT !.engrais = DUREE_EFFET_ENGRAIS]

\* Variant: a new application adds to what is left of the previous one
MettreInsecticideCumul(s) ==
  [s EXCEPT !.insecticide = @ + DUREE_EFFET_INSECTICIDE]

\* Parcelle.mettre_insecticide
MettreInsecticide(s) == [s EXCEPT !.insecticide = DUREE_EFFET_INSECTICIDE]

\* Potager.affecter: the products reach the parcels within range of p
Affecter(sols, portee, p, eau, engrais, insecticide) ==
  [v \in Parcelles |->
     IF v \in Voisines(p, portee)
     THEN LET s1 == IF eau THEN Arroser(sols[v]) ELSE sols[v]
              s2 == IF engrais THEN MettreEngrais(s1) ELSE s1
          IN  IF insecticide THEN MettreInsecticide(s2) ELSE s2
     ELSE sols[v]]

UpdateDispositif ==
  /\ UNCHANGED << annexe, obs_retour >>
  /\ phase = "dispositif" /\ erreur = "aucune"
  /\ epandage' =
       [v \in Parcelles |->
          IF dispositifs[k].portee # 0
             /\ v \in Voisines(k, dispositifs[k].portee)
          THEN [ eau |->
                   IF "eau" \in DispositifActif(dispositifs[k])
                   THEN pas ELSE epandage[v].eau,
                 engrais |->
                   IF "engrais" \in DispositifActif(dispositifs[k])
                   THEN pas ELSE epandage[v].engrais,
                 insecticide |->
                   IF "insecticide" \in DispositifActif(dispositifs[k])
                   THEN pas ELSE epandage[v].insecticide ]
          ELSE epandage[v]]
  /\ sol' = IF dispositifs[k].portee = 0 THEN sol
            ELSE LET produits == DispositifActif(dispositifs[k])
                 IN  Affecter(sol, dispositifs[k].portee, k,
                              "eau" \in produits, "engrais" \in produits,
                              "insecticide" \in produits)
  /\ UNCHANGED << plantes, par_plantes, insectes, par_insectes, dispositifs,
                  recolte, horloge, appels, nes, berceau, obs_plantes,
                  obs_fruits, obs_repro >>
  /\ Retour("dispositif", k)

\* -------------------------------------------------- Parcelle.update_parcelle
\* Variant: a counter set in this pas is not lowered before the next one
SolSuivantTardif(s) ==
  [ humidite |-> IF s.arrose THEN s.humidite
                 ELSE Max(s.humidite - HUMIDITE_DESSECHEMENT, 0),
    arrose |-> FALSE,
    insecticide |-> IF s.insecticide = DUREE_EFFET_INSECTICIDE
                    THEN s.insecticide ELSE Max(s.insecticide - 1, 0),
    engrais |-> IF s.engrais = DUREE_EFFET_ENGRAIS THEN s.engrais
                ELSE Max(s.engrais - 1, 0) ]

\* Variant: the parcel dries whether or not it was watered
SolSuivantSec(s) ==
  [ humidite |-> Max(s.humidite - HUMIDITE_DESSECHEMENT, 0),
    arrose |-> FALSE,
    insecticide |-> Max(s.insecticide - 1, 0),
    engrais |-> Max(s.engrais - 1, 0) ]

\* Parcelle.update_parcelle on the soil of the parcel
SolSuivant(s) ==
  [ humidite |-> IF s.arrose THEN s.humidite
                 ELSE Max(s.humidite - HUMIDITE_DESSECHEMENT, 0),
    arrose |-> FALSE,
    insecticide |-> Max(s.insecticide - 1, 0),
    engrais |-> Max(s.engrais - 1, 0) ]

UpdateParcelle ==
  /\ UNCHANGED << annexe, obs_retour, epandage >>
  /\ phase = "parcelle" /\ erreur = "aucune"
  /\ sol' = [sol EXCEPT ![k] = SolSuivant(@)]
  /\ plantes' = [i \in 1..Len(plantes) |->
                   IF i \in Elements(par_plantes[k])
                      /\ sol'[plantes[i].parcelle].insecticide # 0
                   THEN [plantes[i] EXCEPT !.tps_sous_insecticide = @ + 1]
                   ELSE plantes[i]]
  /\ insectes' = [i \in 1..Len(insectes) |->
                    IF i \in Elements(par_insectes[k])
                    THEN [insectes[i] EXCEPT !.age = @ + 1]
                    ELSE insectes[i]]
  /\ dispositifs' = [dispositifs EXCEPT ![k] =
                       IF @.portee # 0 THEN [@ EXCEPT !.age = @ + 1] ELSE @]
  /\ UNCHANGED << par_plantes, par_insectes, recolte, horloge, appels, nes,
                  berceau, obs_plantes, obs_fruits, obs_repro >>
  /\ Retour("parcelle", k)

\* ------------------------------------------------------------------- Next
Next ==
  \/ Debut
  \/ UpdateDeveloppement
  \/ UpdateFruits
  \/ Coloniser
  \/ FinBouclePlantes
  \/ Survivre
  \/ SeNourrir
  \/ Reproduire
  \/ Bouger
  \/ FinBoucleInsectes
  \/ UpdateDispositif
  \/ UpdateParcelle
  \/ FinPas

Spec == Init /\ [][Next]_vars

\* The steps of a call of pas() that has begun: the interpreter runs them
\* one after the other until the call returns or raises
Interne ==
  \/ UpdateDeveloppement
  \/ UpdateFruits
  \/ Coloniser
  \/ FinBouclePlantes
  \/ Survivre
  \/ SeNourrir
  \/ Reproduire
  \/ Bouger
  \/ FinBoucleInsectes
  \/ UpdateDispositif
  \/ UpdateParcelle
  \/ FinPas

\* The garden under pas(), a call that has begun being run to its end
SpecVivace == Init /\ [][Next]_vars /\ WF_vars(Interne)

\* --------------------------------------- Potager.voisines, voisinerandom
\* The calls below read only the matrix, a Programme or a Dispositif: the
\* variables of pas() keep the value of a garden before its first pas()
AuRepos == InitPotager /\ nb_iter = 1 /\ insectes = Voyageur.insectes

\* Matrices with every parcel present, as Potager(None, n, l, w) builds them
GrillesPleines == { GrillePleine(l, w) : l \in 1..MaxCote, w \in 1..MaxCote }

\* Matrices read from a file that leaves some positions without parcel
GrillesTrouees ==
  UNION { { [ GrillePleine(d[1], d[2]) EXCEPT !.presentes = @ \ vides ] :
              vides \in { v \in SUBSET Positions(d[1], d[2]) :
                            /\ Cardinality(v) >= 1
                            /\ Cardinality(v) <= MaxVides
                            /\ v # Positions(d[1], d[2]) } } :
          d \in (1..MaxCoteTrouee) \X (1..MaxCoteTrouee) }

InitVoisines ==
  /\ AuRepos
  /\ grille \in GrillesPleines \cup GrillesTrouees
  /\ requete = RequeteInit
  /\ essai = EssaiInit(Programme("eau", 0, 1, 1))
  /\ banc = BancInit
  /\ atelier = AtelierInit

\* A call parcelle.voisines(portee); the calls change nothing, so that one
\* call on each matrix shows all of them
AppelVoisines ==
  /\ requete.op = "aucun"
  /\ \E c \in grille.presentes, portee \in (0 - 1)..MaxPortee :
       LET v == VoisinesGrille(grille, c, portee)
       IN  requete' = [ op |-> "voisines", parcelle |-> c, portee |-> portee,
                        erreur |-> v.erreur, liste |-> v.liste,
                        retour |-> Aucune ]
  /\ UNCHANGED << potager_vars, grille, essai, banc, atelier >>

\* A call parcelle.voisinerandom()
AppelVoisineRandom ==
  /\ requete.op = "aucun"
  /\ \E c \in grille.presentes :
       \E voisin \in VoisineRandom(grille, c) :
         requete' = [ op |-> "voisinerandom", parcelle |-> c, portee |-> 1,
                      erreur |-> "aucune",
                      liste |-> VoisinesGrille(grille, c, 1).liste,
                      retour |-> voisin ]
  /\ UNCHANGED << potager_vars, grille, essai, banc, atelier >>

\* Potager.affecter: the arguments eau, engrais, insecticide that can be set
Intrants == { "eau", "engrais", "insecticide" }

\* Soils of a matrix before a spreading: fresh parcels and parcels that
\* still carry products alternate
SolsGrille(g) ==
  [c \in g.presentes |->
     IF (c[1] + c[2]) % 2 = 0
     THEN [ humidite |-> HUMIDITE_INIT, engrais |-> 0, insecticide |-> 0,
            arrose |-> FALSE ]
     ELSE [ humidite |-> 8, engrais |-> 2, insecticide |-> 3,
            arrose |-> FALSE ]]

\* Potager.affecter: the body of "for voisine in voisines", once for each
\* occurrence of the parcel in the list
RECURSIVE Traiter(_, _, _)
Traiter(s, n, produits) ==
  IF n = 0 THEN s
  ELSE LET s1 == IF "eau" \in produits THEN Arroser(s) ELSE s
           s2 == IF "engrais" \in produits THEN MettreEngrais(s1) ELSE s1
           s3 == IF "insecticide" \in produits
                 THEN MettreInsecticide(s2) ELSE s2
       IN  Traiter(s3, n - 1, produits)

\* Variant: the parcel of the device is treated as well
AffecterAvecOrigine(g, sols, v, c, produits) ==
  [ erreur |-> v.erreur,
    sols |-> [d \in g.presentes |->
                IF d = c THEN Traiter(sols[d], 1, produits)
                ELSE Traiter(sols[d], CopiesIn(d, v.liste), produits)] ]

\* Potager.affecter on the matrix g, called with the parcel at c, once
\* parcelle.voisines(portee) has returned v
AffecterGrille(g, sols, v, c, produits) ==
  [ erreur |-> v.erreur,
    sols |-> [d \in g.presentes |->
                Traiter(sols[d], CopiesIn(d, v.liste), produits)] ]

\* A call potager.affecter(portee, parcelle, eau, engrais, insecticide)
AppelAffecter ==
  /\ requete.op = "aucun"
  /\ \E c \in grille.presentes, portee \in 1..MaxPortee :
       \E v \in { VoisinesGrille(grille, c, portee) } :
         \E produits \in SUBSET Intrants :
           LET a == AffecterGrille(grille, SolsGrille(grille), v, c, produits)
           IN  requete' = [ op |-> "affecter", parcelle |-> c,
                            portee |-> portee, erreur |-> a.erreur,
                            liste |-> v.liste,
                            retour |-> [ produits |-> produits,
                                         avant |-> SolsGrille(grille),
                                         apres |-> a.sols ] ]
  /\ UNCHANGED << potager_vars, grille, essai, banc, atelier >>

\* The calls of affecter are made on the matrices of at most MaxCoteSol x
\* MaxCoteSol positions, with and without positions that hold no parcel
InitAffecter ==
  /\ AuRepos
  /\ grille \in { g \in GrillesPleines \cup GrillesTrouees :
                    g.longueur <= MaxCoteSol /\ g.largeur <= MaxCoteSol }
  /\ requete = RequeteInit
  /\ essai = EssaiInit(Programme("eau", 0, 1, 1))
  /\ banc = BancInit
  /\ atelier = AtelierInit

SpecAffecter == InitAffecter /\ [][AppelAffecter]_vars

NextVoisines == AppelVoisines \/ AppelVoisineRandom

SpecVoisines == InitVoisines /\ [][NextVoisines]_vars

\* ---------------------------------------------------------- Programme.actif
\* LISTE_PRODUITS
PRODUITS == { "eau", "engrais", "insecticide" }

\* The programmes the constructor accepts: debut >= 0, duree >= 0,
\* periode > 0 and periode >= duree
ProgrammesValides ==
  { Programme(produit, debut, duree, periode) :
      produit \in PRODUITS, debut \in 0..MaxDebut,
      duree \in 0..MaxPeriode, periode \in 1..MaxPeriode }
  \ { prog \in [ produit : PRODUITS, debut : 0..MaxDebut,
                 duree : 0..MaxPeriode, periode : 1..MaxPeriode ] :
        prog.periode < prog.duree }

InitProgramme ==
  /\ AuRepos
  /\ grille = GrillePleine(Longueur, Largeur)
  /\ requete = RequeteInit
  /\ essai \in { EssaiInit(prog) : prog \in ProgrammesValides }
  /\ banc = BancInit
  /\ atelier = AtelierInit

\* A call prog.actif(age)
AppelActif ==
  /\ \E age \in 0..MaxAge :
       essai' = [essai EXCEPT !.age = age,
                              !.retour = ProgrammeActif(essai.prog, age)]
  /\ UNCHANGED << potager_vars, grille, requete, banc, atelier >>

NextProgramme == AppelActif

SpecProgramme == InitProgramme /\ [][NextProgramme]_vars

\* ------------------------------------------------- Dispositif outside pas()
\* The programmes handed to the Dispositif below
ProgrammesBanc ==
  { prog \in ProgrammesValides :
      prog.debut \in { 0, MaxDebut } /\ prog.periode = MaxPeriode }

\* The lists of at most MaxProgrammes of them
ListesProgrammes ==
  UNION { [1..n -> ProgrammesBanc] : n \in 0..MaxProgrammes }

InitDispositif ==
  /\ AuRepos
  /\ grille = GrillePleine(Longueur, Largeur)
  /\ requete = RequeteInit
  /\ essai = EssaiInit(Programme("eau", 0, 1, 1))
  /\ banc = BancInit
  /\ atelier = AtelierInit

\* Dispositif.__init__(portee, programmes): each programme of the list is
\* handed to self.ajouter_programme, a method the class does not define, and
\* the AttributeError is not the TypeError the constructor catches; the range
\* is looked at afterwards.
Construire ==
  /\ banc.etat = "neant"
  /\ \E portee \in 0..MaxPortee, programmes \in ListesProgrammes :
       banc' =
         IF programmes # << >>
         THEN [banc EXCEPT !.etat = "erreur", !.erreur = "AttributeError",
                           !.demande = [ portee |-> portee,
                                         programmes |-> programmes ]]
         ELSE IF portee <= 0
         THEN [banc EXCEPT !.etat = "erreur", !.erreur = "ValueError",
                           !.demande = [ portee |-> portee,
                                         programmes |-> programmes ]]
         ELSE [banc EXCEPT !.etat = "construit",
                           !.demande = [ portee |-> portee,
                                         programmes |-> programmes ],
                           !.d = [ portee |-> portee, programmes |-> << >>,
                                   age |-> 0 ],
                           !.actif = {}]
  /\ UNCHANGED << potager_vars, grille, requete, essai, atelier >>

\* Dispositif.ajout_prog, then a reading of the property actif
AjoutProg ==
  /\ banc.etat = "construit"
  /\ Len(banc.d.programmes) < MaxProgrammes
  /\ \E prog \in ProgrammesBanc :
       LET d == [banc.d EXCEPT !.programmes = Append(@, prog)]
       IN  banc' = [banc EXCEPT !.d = d, !.actif = DispositifActif(d)]
  /\ UNCHANGED << potager_vars, grille, requete, essai, atelier >>

\* EntiteParcelle.pas on the Dispositif, then a reading of the property actif
PasDispositif ==
  /\ banc.etat = "construit"
  /\ banc.d.age < MaxAge
  /\ LET d == [banc.d EXCEPT !.age = @ + 1]
     IN  banc' = [banc EXCEPT !.d = d, !.actif = DispositifActif(d)]
  /\ UNCHANGED << potager_vars, grille, requete, essai, atelier >>

NextDispositif == Construire \/ AjoutProg \/ PasDispositif

SpecDispositif == InitDispositif /\ [][NextDispositif]_vars

\* ------------------------------------- constructors and unattached entities
\* Potager.__init__(None, nb_iter, longueur, largeur): the tests that raise
PotagerRefuse(n, l, w) == n < 1 \/ w < 0 \/ l <= 0

\* Potager._creer_parcelles_vides: the positions of the matrix it builds
ParcellesVides(l_x, l_y) == Positions(Max(1, l_x), Max(1, l_y))

\* Exception raised by Programme.__init__, "aucune" if it returns
ProgrammeErreur(produit, debut, duree, periode) ==
  IF produit \notin PRODUITS THEN "TypeError"
  ELSE IF debut < 0 \/ duree < 0 \/ periode <= 0 \/ periode < duree
  THEN "ValueError"
  ELSE "aucune"

\* Plante.__init__: the tests that raise ValueError (tenths)
PlanteRefusee(mat, nb, entre, hmin, hmax, surf) ==
  \/ mat < 0 \/ nb < 0 \/ entre < 0
  \/ hmin > 10 \/ hmin < 0
  \/ hmax > 10 \/ hmax < 0
  \/ surf < 2 \/ surf > 10

\* Drageon.__init__: the test on proba_colonisation after Plante.__init__
DrageonRefuse(proba) == proba < 0 \/ proba > Echelle

\* Insecte.__init__: the tests that raise ValueError
InsecteRefuse(pvm, vie, mob, res, tps, portee) ==
  \/ pvm <= 0 \/ vie <= 0
  \/ mob < 0 \/ mob > Echelle
  \/ res < 0 \/ res > Echelle
  \/ tps < 0 \/ portee < 0

\* Arguments handed to the constructors, in and out of their domains
Dimensions == (0 - 1)..MaxCoteTrouee
Durees == (0 - 1)..MaxDuree
Humidites == { 0 - 1, 0, 2, 8, 10, 11 }
Surfaces == { 1, 2, 5, 10, 11 }
Probas == { 0 - 1, 0, Echelle, Echelle + 1 }

InitAtelier ==
  /\ AuRepos
  /\ grille = GrillePleine(Longueur, Largeur)
  /\ requete = RequeteInit
  /\ essai = EssaiInit(Programme("eau", 0, 1, 1))
  /\ banc = BancInit
  /\ atelier = AtelierInit

\* The constructor of classe was called with arguments: it raised exception,
\* or it returned objet
Construit(classe, arguments, exception, objet) ==
  [ classe |-> classe, arguments |-> arguments, erreur |-> exception,
    objet |-> IF exception = "aucune" THEN objet ELSE Aucune,
    appel |-> "aucun" ]

\* Potager(None, nb_iter, longueur, largeur)
ConstruirePotager ==
  /\ atelier.classe = "aucune"
  /\ \E n \in 0..1, l \in Dimensions, w \in Dimensions :
       atelier' =
         Construit("Potager",
                   [ nb_iter |-> n, longueur |-> l, largeur |-> w ],
                   IF PotagerRefuse(n, l, w) THEN "ValueError" ELSE "aucune",
                   [ nb_iter |-> n, longueur |-> l, largeur |-> w, pas |-> 0,
                     parcelles |-> ParcellesVides(l, w) ])
  /\ UNCHANGED << potager_vars, grille, requete, essai, banc >>

\* Programme(produit, debut, duree, periode)
ConstruireProgramme ==
  /\ atelier.classe = "aucune"
  /\ \E produit \in PRODUITS \cup { "sable" },
        debut \in Durees, duree \in Durees, periode \in Durees :
       atelier' =
         Construit("Programme", Programme(produit, debut, duree, periode),
                   ProgrammeErreur(produit, debut, duree, periode),
                   Programme(produit, debut, duree, periode))
  /\ UNCHANGED << potager_vars, grille, requete, essai, banc >>

\* The setter of Programme.debut: the value is stored, then tested
ReglerDebut ==
  /\ atelier.classe = "Programme" /\ atelier.erreur = "aucune"
  /\ atelier.appel = "aucun"
  /\ \E debut \in Durees :
       atelier' = [atelier EXCEPT
                     !.objet.debut = debut, !.appel = "debut",
                     !.erreur = IF debut < 0 THEN "ValueError" ELSE "aucune"]
  /\ UNCHANGED << potager_vars, grille, requete, essai, banc >>

\* The setter of Programme.duree: the value is stored, then its sign tested
ReglerDuree ==
  /\ atelier.classe = "Programme" /\ atelier.erreur = "aucune"
  /\ atelier.appel = "aucun"
  /\ \E duree \in Durees :
       atelier' = [atelier EXCEPT
                     !.objet.duree = duree, !.appel = "duree",
                     !.erreur = IF duree < 0 THEN "ValueError" ELSE "aucune"]
  /\ UNCHANGED << potager_vars, grille, requete, essai, banc >>

\* The setter of Programme.periode: the value is stored, then tested against
\* 0 and against the duration
ReglerPeriode ==
  /\ atelier.classe = "Programme" /\ atelier.erreur = "aucune"
  /\ atelier.appel = "aucun"
  /\ \E periode \in Durees :
       atelier' = [atelier EXCEPT
                     !.objet.periode = periode, !.appel = "periode",
                     !.erreur = IF periode <= 0 \/ periode < atelier.objet.duree
                                THEN "ValueError" ELSE "aucune"]
  /\ UNCHANGED << potager_vars, grille, requete, essai, banc >>

\* Plante(espece, ...) and Drageon(espece, ..., proba_colonisation)
ConstruirePlante ==
  /\ atelier.classe = "aucune"
  /\ \E mat \in { 0 - 1, 1 }, nb \in { 0 - 1, 1 }, entre \in { 0 - 1, 1 },
        hmin \in Humidites, hmax \in Humidites, surf \in Surfaces,
        drageon \in BOOLEAN, proba \in Probas :
       /\ ~ drageon => proba = 0 - 1
       /\ atelier' =
            Construit("Plante",
                      [ tps_maturation |-> mat, nb_recoltes_potentielles |-> nb,
                        tps_entre_recoltes |-> entre, hum_min |-> hmin,
                        hum_max |-> hmax, surface_parcelle |-> surf,
                        drageon |-> drageon, proba_colonisation |-> proba ],
                      IF \/ PlanteRefusee(mat, nb, entre, hmin, hmax, surf)
                         \/ drageon /\ DrageonRefuse(proba)
                      THEN "ValueError" ELSE "aucune",
                      NouvellePlante("tomate", mat, nb, entre, hmin, hmax,
                                     surf, drageon, proba))
  /\ UNCHANGED << potager_vars, grille, requete, essai, banc >>

\* Insecte(espece, sexe, ..., enfant)
ConstruireInsecte ==
  /\ atelier.classe = "aucune"
  /\ \E pvm \in 0..MaxPv, vie \in { 0, 2 }, mob \in { 0 - 1, Echelle },
        res \in { 0, Echelle + 1 }, tps \in (0 - 1)..2, portee \in (0 - 1)..1,
        enfant \in BOOLEAN :
       atelier' =
         Construit("Insecte",
                   [ pv_max |-> pvm, esperance_vie |-> vie, mobilite |-> mob,
                     resistance |-> res, tps_entre_repro |-> tps,
                     portee_max |-> portee, enfant |-> enfant ],
                   IF InsecteRefuse(pvm, vie, mob, res, tps, portee)
                   THEN "ValueError" ELSE "aucune",
                   NouvelInsecte("puceron", TRUE, pvm, vie, mob, res, tps,
                                 portee, enfant))
  /\ UNCHANGED << potager_vars, grille, requete, essai, banc >>

\* Parcelle.accueillir(insecte) on the parcel of a garden without plant
PoserInsecte ==
  /\ atelier.classe = "Insecte" /\ atelier.erreur = "aucune"
  /\ atelier.objet.parcelle = 0
  /\ atelier.appel = "aucun"
  /\ atelier' = [atelier EXCEPT !.objet.parcelle = 1, !.appel = "accueillir"]
  /\ UNCHANGED << potager_vars, grille, requete, essai, banc >>

\* Insecte.se_nourrir on that parcel: no plant stands there
JeunerInsecte ==
  /\ atelier.classe = "Insecte" /\ atelier.erreur = "aucune"
  /\ atelier.objet.parcelle = 1
  /\ atelier.objet.pv > 0
  /\ atelier' = [atelier EXCEPT
                   !.objet.dernier_repas = PlusUn(@),
                   !.objet.repas_consecutifs = 0,
                   !.objet.pv = PvJeune(atelier.objet),
                   !.appel = "se_nourrir"]
  /\ UNCHANGED << potager_vars, grille, requete, essai, banc >>

\* The setter of EntiteParcelle.parcelle, called with None
DetacherInsecte ==
  /\ atelier.classe = "Insecte" /\ atelier.erreur = "aucune"
  /\ atelier.objet.parcelle = 1
  /\ atelier' = [atelier EXCEPT !.objet.parcelle = 0, !.appel = "parcelle"]
  /\ UNCHANGED << potager_vars, grille, requete, essai, banc >>

\* Plante.update_developpement on a plant that stands on no parcel: the
\* first statement of the try block fails
DevelopperSansParcelle ==
  /\ atelier.classe = "Plante" /\ atelier.erreur = "aucune"
  /\ atelier.objet.parcelle = 0
  /\ atelier' = [atelier EXCEPT !.appel = "update_developpement",
                                !.erreur = "UnboundLocalError"]
  /\ UNCHANGED << potager_vars, grille, requete, essai, banc >>

\* Insecte.survivre on an insect that stands on no parcel: with no health
\* left, self.potager is read before the try block and fails on None
SurvivreSansParcelle ==
  /\ atelier.classe = "Insecte" /\ atelier.erreur = "aucune"
  /\ atelier.objet.parcelle = 0
  /\ atelier' = [atelier EXCEPT
                   !.appel = "survivre",
                   !.erreur = IF atelier.objet.pv <= 0 THEN "AttributeError"
                              ELSE "UnboundLocalError"]
  /\ UNCHANGED << potager_vars, grille, requete, essai, banc >>

NextAtelier ==
  \/ ConstruirePotager
  \/ ConstruireProgramme
  \/ ReglerDebut
  \/ ReglerDuree
  \/ ReglerPeriode
  \/ ConstruirePlante
  \/ ConstruireInsecte
  \/ PoserInsecte
  \/ JeunerInsecte
  \/ DetacherInsecte
  \/ DevelopperSansParcelle
  \/ SurvivreSansParcelle

SpecAtelier == InitAtelier /\ [][NextAtelier]_vars

\* ----------------------------------------------------------------- claims
METHODES == { "survivre", "se_nourrir", "reproduire", "bouger" }

NbAppels(journal, methode) ==
  Cardinality({ j \in 1..Len(journal) : journal[j] = methode })

Vivant(i) == \E p \in Parcelles : i \in Elements(par_insectes[p])

\* C1: with a budget of N steps, the k-th call of pas() returns true for
\* every k < N and false for k = N.
C1_RetourBudget ==
  \A i \in 1..Len(retours) :
    /\ i < nb_iter => retours[i] = TRUE
    /\ i = nb_iter => retours[i] = FALSE

C1_Temoin == nb_iter >= 2 /\ Len(retours) = nb_iter

\* C2: within one step the update functions run on every parcel in the order
\* plants, insects, devices, soil, and a parcel starts a function only when
\* every parcel has finished the previous one.
C2_OrdrePhases ==
  \A p \in Parcelles :
    /\ ordre[p] = SubSeq(PHASES, 1, Len(ordre[p]))
    /\ \A q \in Parcelles : Len(ordre[p]) <= finies[q] + 1

C2_Temoin == phase = "fin" /\ \A p \in Parcelles : ordre[p] = PHASES

\* C3: no insect is processed twice in one step: each of survivre,
\* se_nourrir, reproduire and bouger is invoked on it at most once per step.
C3_UneFoisParPas ==
  \A i \in 1..Len(insectes) :
    \A m \in METHODES : NbAppels(appels[i], m) <= 1

\* C4: when update_insectes of a parcel ends, every insect that was on the
\* parcel when it began has had survivre invoked exactly once, and, unless
\* it was removed, se_nourrir, reproduire and bouger once each in that order.
C4_TousTraites ==
  (phase = "insectes" /\ boucle = 4 /\ idx > Len(par_insectes[k])) =>
    \A i \in Elements(instantane) :
      /\ NbAppels(appels_maj[i], "survivre") = 1
      /\ Vivant(i) =>
           appels_maj[i] = << "survivre", "se_nourrir", "reproduire", "bouger" >>

\* C5: an insect born during a step has no method invoked on it in that step
\* and stays on the parcel where it was born until the step ends.
C5_NouveauNe ==
  \A i \in nes :
    /\ appels[i] = << >>
    /\ insectes[i].parcelle = berceau[i]

\* C6: a drageon created by coloniser() during a step is not developed, not
\* harvested and does not colonise during that step.
C6_DrageonNouveau == \A p \in plantes_nees : appels_plante[p] = << >>

\* C7: on every parcel the footprints of the plants add up to at most 1
\* (10 tenths), also right after a colonisation.
C7_SurfaceTotale ==
  \A p \in Parcelles : SurfaceTotale(plantes, par_plantes[p]) <= 10

C7_Temoin ==
  \E i \in plantes_nees :
    /\ Len(par_plantes[plantes[i].parcelle]) >= 2
    /\ \E v \in Parcelles :
         ~ Colonisable(SurfaceTotale(plantes, par_plantes[v]),
                       plantes[i].surface_parcelle)

\* C8: no plant is harvested more often than its maximum, and update_fruits
\* returns true only for a mature plant whose growth since the last harvest
\* has reached the time required between harvests.
C8_Recoltes ==
  /\ \A i \in 1..Len(plantes) :
       plantes[i].nb_recoltes_effectuees <= plantes[i].nb_recoltes_potentielles
  /\ obs_fruits.retour =>
       /\ obs_fruits.mature
       /\ obs_fruits.croissance >= plantes[obs_fruits.plante].tps_entre_recoltes

C8_Temoin ==
  /\ obs_fruits.retour
  /\ plantes[obs_fruits.plante].nb_recoltes_effectuees
       = plantes[obs_fruits.plante].nb_recoltes_potentielles
  /\ pas >= 2

\* C9: the health of every insect, adult or newborn, stays between 0 and its
\* maximum.
C9_PvBornes ==
  \A i \in 1..Len(insectes) :
    insectes[i].pv >= 0 /\ insectes[i].pv <= insectes[i].pv_max

C9_Temoin ==
  /\ \E i \in 1..Len(insectes) : insectes[i].repas_consecutifs >= 3
  /\ \E i \in 1..Len(insectes) : insectes[i].maturite > 0
  /\ \E i \in 1..Len(insectes) : insectes[i].pv = 0

\* C10: a reproduire() call made with an available partner on the parcel
\* completes, for every litter maximum of the partner, and returns between 1
\* and that maximum children, each with its six genes in their domains.
C10_PorteeValide ==
  obs_repro.cas = "candidats" =>
    /\ obs_repro.termine
    /\ Len(obs_repro.portee) >= 1
    /\ Len(obs_repro.portee) <= insectes[obs_repro.partenaire].portee_max
    /\ \A j \in Elements(obs_repro.portee) :
         /\ insectes[j].pv_max >= 1
         /\ insectes[j].esperance_vie >= 1
         /\ insectes[j].mobilite >= 0 /\ insectes[j].mobilite <= Echelle
         /\ insectes[j].resistance >= 0 /\ insectes[j].resistance <= Echelle
         /\ insectes[j].tps_entre_repro >= 0
         /\ insectes[j].portee_max >= 0

Abs(x) == IF x < 0 THEN 0 - x ELSE x
Manhattan(a, b) == Abs(a[1] - b[1]) + Abs(a[2] - b[2])

\* The matrix has no position without parcel
Pleine(g) == g.presentes = Positions(g.longueur, g.largeur)

\* The parcel c is at least r positions away from the four edges of g
Interieure(g, c, r) ==
  /\ c[1] >= r /\ c[1] + r < g.longueur
  /\ c[2] >= r /\ c[2] + r < g.largeur

VoisinesRendues == requete.op = "voisines" /\ requete.erreur = "aucune"

\* C11: voisines(parcelle, portee) returns exactly the existing parcels whose
\* Manhattan distance from the parcel is between 1 and portee, on every
\* matrix, also when positions without parcel lie between the two.
C11_DistanceManhattan ==
  VoisinesRendues =>
    BagToSet(requete.liste) =
      { c \in grille.presentes :
          /\ Manhattan(c, requete.parcelle) >= 1
          /\ Manhattan(c, requete.parcelle) <= requete.portee }

\* C12: on a matrix without hole, a parcel that is at least portee positions
\* away from every edge has 2 * portee * (portee + 1) neighbours: 4, 12, 24
\* and 40 for the ranges 1, 2, 3 and 4.
C12_NombreVoisines ==
  ( /\ VoisinesRendues
    /\ Pleine(grille)
    /\ Interieure(grille, requete.parcelle, requete.portee) ) =>
    /\ BagCardinality(requete.liste)
         = 2 * requete.portee * (requete.portee + 1)
    /\ requete.portee = 1 => BagCardinality(requete.liste) = 4
    /\ requete.portee = 2 => BagCardinality(requete.liste) = 12
    /\ requete.portee = 3 => BagCardinality(requete.liste) = 24
    /\ requete.portee = 4 => BagCardinality(requete.liste) = 40

C12_Temoin ==
  /\ VoisinesRendues /\ Pleine(grille) /\ requete.portee = 4
  /\ Interieure(grille, requete.parcelle, 4)
  /\ BagCardinality(requete.liste) = 40

\* C13: the list returned by voisines(parcelle, portee), portee >= 1, holds no
\* parcel twice and never holds the parcel itself.
C13_SansDoublon ==
  VoisinesRendues =>
    \A c \in BagToSet(requete.liste) :
      CopiesIn(c, requete.liste) = 1 /\ c # requete.parcelle

C13_Temoin ==
  /\ VoisinesRendues /\ requete.portee >= 3
  /\ ~ Pleine(grille)
  /\ BagCardinality(requete.liste) >= 6

\* C14: on a matrix of one parcel, voisines() of the parcel is empty and
\* voisinerandom() returns None.
C14_ParcelleSeule ==
  (grille.longueur = 1 /\ grille.largeur = 1) =>
    /\ VoisinesRendues => requete.liste = EmptyBag
    /\ requete.op = "voisinerandom" => requete.retour = Aucune

C14_Temoin ==
  /\ grille.longueur = 1 /\ grille.largeur = 1
  /\ requete.op = "voisinerandom" /\ requete.retour = Aucune
  /\ requete.liste = EmptyBag

\* C15: voisinerandom() returns one of the parcels of voisines(parcelle, 1)
\* whenever that list is not empty, and None only when it is empty.
C15_VoisineAleatoire ==
  requete.op = "voisinerandom" =>
    LET voisines == VoisinesGrille(grille, requete.parcelle, 1).liste
    IN  /\ voisines # EmptyBag => BagIn(requete.retour, voisines)
        /\ requete.retour = Aucune => voisines = EmptyBag

C15_Temoin ==
  /\ requete.op = "voisinerandom" /\ requete.retour # Aucune
  /\ BagCardinality(requete.liste) = 1
  /\ ~ Pleine(grille)

\* C16: voisines(parcelle, portee) with portee <= 0 raises ValueError, returns
\* nothing and leaves the garden and its matrix as they were.
C16_PorteeRefusee ==
  /\ [](requete.op = "voisines" /\ requete.portee <= 0 =>
          requete.erreur = "ValueError" /\ requete.liste = EmptyBag)
  /\ [][requete'.erreur = "ValueError" =>
          grille' = grille /\ potager_vars' = potager_vars]_vars

C16_Temoin ==
  /\ requete.op = "voisines" /\ requete.portee = 0
  /\ requete.erreur = "ValueError"

\* The ages at which a programme runs: the first duree ages of each period,
\* the periods following one another from debut on
AgesActifs(prog) ==
  { prog.debut + n * prog.periode + j :
      n \in 0..MaxAge, j \in 0..(prog.duree - 1) }

\* C17: Programme.actif(age) is true exactly when age >= debut and
\* (age - debut) mod periode < duree; with debut 5, duree 3, periode 5 it is
\* false for the ages 0 to 4, true for 5, 6, 7, false for 8, 9, true for 10,
\* 11, 12; a programme of duree 0 is never active.
C17_ProgrammeActif ==
  essai.age >= 0 =>
    /\ essai.retour <=> essai.age \in AgesActifs(essai.prog)
    /\ ( /\ essai.prog.debut = 5
         /\ essai.prog.duree = 3
         /\ essai.prog.periode = 5 ) =>
         (essai.retour <=> essai.age \in { 5, 6, 7, 10, 11, 12 })
    /\ essai.prog.duree = 0 => ~ essai.retour

C17_Temoin ==
  /\ essai.prog.debut = 5 /\ essai.prog.duree = 3 /\ essai.prog.periode = 5
  /\ essai.age = 10 /\ essai.retour

\* C18: a Dispositif can be built from a range > 0 and a non-empty list of
\* valid programmes, and at every age reached by its pas() the property actif
\* is exactly the set of the products of its programmes that are active at
\* that age.
C18_DispositifProgramme ==
  /\ (banc.demande.portee > 0 /\ banc.demande.programmes # << >>) =>
       /\ banc.etat = "construit"
       /\ banc.d.programmes = banc.demande.programmes
  /\ banc.etat = "construit" =>
       banc.actif =
         { produit \in PRODUITS :
             \E i \in 1..Len(banc.d.programmes) :
               /\ banc.d.programmes[i].produit = produit
               /\ ProgrammeActif(banc.d.programmes[i], banc.d.age) }

\* Number of places that the insect i takes in the lists _insectes
NbPlaces(i) ==
  Cardinality({ pj \in UNION { { << p, j >> : j \in 1..Len(par_insectes[p]) } :
                               p \in Parcelles } :
                  par_insectes[pj[1]][pj[2]] = i })

\* C19: every living insect is in the list _insectes of exactly one parcel,
\* exactly once, and its attribute parcelle is that parcel; a birth or a move
\* never leaves an insect in two lists or in none: only survivre() called on
\* an insect takes it out of every list.
C19_UneSeuleParcelle ==
  /\ [](\A i \in 1..Len(insectes) :
          /\ NbPlaces(i) <= 1
          /\ \A p \in Parcelles :
               i \in Elements(par_insectes[p]) => insectes[i].parcelle = p)
  /\ [][\A i \in 1..Len(insectes') :
          ((i > Len(insectes) \/ Vivant(i)) /\ ~ Vivant(i)') =>
            /\ phase = "insectes" /\ boucle = 1
            /\ idx <= Len(par_insectes[k])
            /\ par_insectes[k][idx] = i]_vars

C19_Temoin ==
  \E i \in nes : Vivant(i) /\ insectes[i].parcelle # berceau[i]

\* C20: once _pas has reached _nb_iter, pas() can still be called; each such
\* call runs the four update functions on every parcel, adds exactly 1 to
\* _pas and returns false.
C20_ApresBudget ==
  /\ [](/\ \A i \in 1..Len(retours) : i > nb_iter => retours[i] = FALSE
        /\ (phase = "repos" /\ erreur = "aucune" /\ pas >= nb_iter
              /\ pas < MaxPas) => ENABLED Debut)
  /\ [][(pas >= nb_iter /\ pas' # pas) =>
          /\ pas' = pas + 1
          /\ retours' = Append(retours, FALSE)
          /\ \A p \in Parcelles : ordre[p] = PHASES /\ finies[p] = 4]_vars

C20_Temoin == pas >= nb_iter + 2 /\ Len(retours) = pas /\ ~ retours[pas]


\* update_plantes is about to call coloniser() on the plant at idx
EnColonisation ==
  /\ phase = "plantes" /\ boucle = 3 /\ erreur = "aucune"
  /\ idx <= Len(par_plantes[k])

\* Neighbours at range 1 where the plants already there and one more plant
\* like pl take at most the whole parcel
Qualifiantes(pl) ==
  { v \in Voisines(pl.parcelle, 1) :
      SurfaceTotale(plantes, par_plantes[v]) + pl.surface_parcelle <= 10 }

\* C25: when coloniser() is called on a mature drageon and its random draw
\* succeeds, a neighbour at range 1 qualifies exactly when the surface taken
\* by its plants plus the surface of the drageon is at most 1, equality
\* included; if at least one neighbour qualifies a copy of the drageon is
\* planted on one of them, otherwise nothing is planted.
C25_Colonisation ==
  [][(/\ EnColonisation
      /\ plantes[par_plantes[k][idx]].drageon
      /\ Mature(plantes[par_plantes[k][idx]])
      /\ obs_retour'.tente) =>
       LET pl == plantes[par_plantes[k][idx]]
           ne == Len(plantes) + 1
       IN  IF Qualifiantes(pl) = {}
           THEN plantes' = plantes /\ par_plantes' = par_plantes
           ELSE /\ Len(plantes') = ne
                /\ plantes'[ne].parcelle \in Qualifiantes(pl)
                /\ plantes'[ne].espece = pl.espece
                /\ plantes'[ne].surface_parcelle = pl.surface_parcelle
                /\ plantes'[ne].drageon
                /\ par_plantes' =
                     [par_plantes EXCEPT ![plantes'[ne].parcelle] =
                        Append(@, ne)]]_vars


\* update_plantes is about to call update_developpement() on the plant at idx
EnDeveloppement ==
  /\ phase = "plantes" /\ boucle = 1 /\ erreur = "aucune"
  /\ idx <= Len(par_plantes[k])

\* C26: update_developpement() returns
\* delta = max(0, (1 + fertilized) * (1 + humid_ok - occupied)), where occupied
\* is 1 iff the parcel holds at least one insect, humid_ok is 1 iff the
\* humidity of the parcel lies in the band of the plant (bounds included) and
\* fertilized is 1 iff the parcel has fertilizer left; delta is added to the
\* age, and to tps_croissance only when the plant is mature; tps_croissance
\* is 0 for every plant whose age is below its maturation age.
C26_Developpement ==
  /\ [](\A i \in 1..Len(plantes) :
          plantes[i].age < plantes[i].tps_maturation =>
            plantes[i].tps_croissance = 0)
  /\ [][EnDeveloppement =>
          LET id == par_plantes[k][idx]
              pl == plantes[id]
              occupied == IF Len(par_insectes[pl.parcelle]) >= 1 THEN 1 ELSE 0
              humid_ok == IF /\ pl.hum_min <= sol[pl.parcelle].humidite
                             /\ sol[pl.parcelle].humidite <= pl.hum_max
                          THEN 1 ELSE 0
              fertilized == IF sol[pl.parcelle].engrais > 0 THEN 1 ELSE 0
              delta == Max(0, (1 + fertilized) * (1 + humid_ok - occupied))
          IN  /\ obs_retour'.methode = "update_developpement"
              /\ obs_retour'.sujet = id
              /\ obs_retour'.dev = delta
              /\ plantes'[id].age = pl.age + delta
              /\ plantes'[id].tps_croissance =
                   IF plantes'[id].age >= pl.tps_maturation
                   THEN pl.tps_croissance + delta
                   ELSE pl.tps_croissance
              /\ \A j \in 1..Len(plantes) : j # id => plantes'[j] = plantes[j]]_vars

\* update_developpement() has just returned 0 to a plant that is not mature
C26_Temoin ==
  /\ obs_retour.methode = "update_developpement"
  /\ obs_retour.dev = 0
  /\ ~ Mature(plantes[obs_retour.sujet])
  /\ Len(par_insectes[plantes[obs_retour.sujet].parcelle]) >= 1


\* update_plantes is about to call update_fruits() on the plant at idx
EnRecolte ==
  /\ phase = "plantes" /\ boucle = 2 /\ erreur = "aucune"
  /\ idx <= Len(par_plantes[k])

EnRepas ==
  /\ phase = "insectes" /\ boucle = 2 /\ erreur = "aucune"
  /\ idx <= Len(par_insectes[k])

\* C28: se_nourrir() returns true iff the parcel of the insect holds at least
\* one plant.  On true it sets dernier_repas to 0, adds 1 to
\* repas_consecutifs and, only if repas_consecutifs has then reached 3, adds
\* 1 to pv without exceeding pv_max.  On false it adds 1 to dernier_repas,
\* sets repas_consecutifs to 0 and takes 1 from pv without going below 0.
C28_Repas ==
  [][EnRepas =>
       LET id == par_insectes[k][idx]
           ins == insectes[id]
           apres == insectes'[id]
           nourri == Len(par_plantes[ins.parcelle]) >= 1
       IN  /\ obs_retour'.methode = "se_nourrir"
           /\ obs_retour'.sujet = id
           /\ obs_retour'.retour = nourri
           /\ nourri =>
                /\ apres.dernier_repas = 0
                /\ apres.repas_consecutifs = ins.repas_consecutifs + 1
                /\ apres.pv = IF apres.repas_consecutifs >= 3
                              THEN Min(ins.pv + 1, ins.pv_max) ELSE ins.pv
           /\ ~ nourri =>
                /\ apres.dernier_repas = PlusUn(ins.dernier_repas)
                /\ apres.repas_consecutifs = 0
                /\ apres.pv = Max(ins.pv - 1, 0)
           /\ apres = [ins EXCEPT !.dernier_repas = apres.dernier_repas,
                                  !.repas_consecutifs = apres.repas_consecutifs,
                                  !.pv = apres.pv]]_vars

\* A living insect has just eaten for the third time in a row; its health,
\* already maximal, has not moved
C28_Temoin ==
  /\ obs_retour.methode = "se_nourrir" /\ obs_retour.retour
  /\ insectes[obs_retour.sujet].repas_consecutifs >= 3
  /\ insectes[obs_retour.sujet].pv = insectes[obs_retour.sujet].pv_max
  /\ Vivant(obs_retour.sujet)


\* update_insectes is about to call reproduire() on the insect at idx
EnReproduction ==
  /\ phase = "insectes" /\ boucle = 3 /\ erreur = "aucune"
  /\ idx <= Len(par_insectes[k])

C21_DimensionsPotager ==
  ( /\ atelier.classe = "Potager"
    /\ atelier.arguments.longueur <= 0 \/ atelier.arguments.largeur <= 0 ) =>
    /\ atelier.erreur # "aucune"
    /\ atelier.objet = Aucune

\* C22: Programme(produit, debut, duree, periode) with debut < 0, duree < 0,
\* periode <= 0, periode < duree or a produit that is not eau, engrais or
\* insecticide raises at construction; every Programme that exists has
\* debut >= 0, 0 <= duree <= periode and periode > 0.
C22_ProgrammeValide ==
  atelier.classe = "Programme" =>
    /\ ( \/ atelier.arguments.debut < 0
         \/ atelier.arguments.duree < 0
         \/ atelier.arguments.periode <= 0
         \/ atelier.arguments.periode < atelier.arguments.duree
         \/ atelier.arguments.produit \notin { "eau", "engrais", "insecticide" } )
         => (atelier.erreur # "aucune" /\ atelier.objet = Aucune)
    /\ atelier.objet # Aucune =>
         /\ atelier.objet.debut >= 0
         /\ 0 <= atelier.objet.duree
         /\ atelier.objet.duree <= atelier.objet.periode
         /\ atelier.objet.periode > 0

\* C23: Plante(...) whose humidity band has its lower bound above its upper
\* bound, or a bound outside [0, 1], raises at construction; every Plante
\* that exists has 0 <= humidite[0] <= humidite[1] <= 1.
C23_BandeHumidite ==
  atelier.classe = "Plante" =>
    /\ ( \/ atelier.arguments.hum_min > atelier.arguments.hum_max
         \/ atelier.arguments.hum_min \notin 0..10
         \/ atelier.arguments.hum_max \notin 0..10 )
         => (atelier.erreur # "aucune" /\ atelier.objet = Aucune)
    /\ atelier.objet # Aucune =>
         /\ 0 <= atelier.objet.hum_min
         /\ atelier.objet.hum_min <= atelier.objet.hum_max
         /\ atelier.objet.hum_max <= 10

\* C24: update_developpement() on a plant and survivre() on an insect that
\* stand on no parcel raise UnboundLocalError, whatever the state of the
\* entity, an insect with no health left included, and leave the entity as
\* it was.
C24_SansParcelle ==
  [][( /\ atelier.classe \in { "Plante", "Insecte" }
       /\ atelier.erreur = "aucune"
       /\ atelier.objet.parcelle = 0
       /\ atelier'.appel \in { "update_developpement", "survivre" } ) =>
       /\ atelier'.erreur = "UnboundLocalError"
       /\ atelier'.objet = atelier.objet]_vars

\* C30: an insect built as a child (enfant = True) starts with
\* pv = max(1, round(pv_max * 0.5)), a half being rounded to the even
\* neighbour or upwards, and with maturite = 2 * tps_entre_repro, for every
\* pv_max >= 1, odd values included.
C30_PvEnfant ==
  ( /\ atelier.classe = "Insecte" /\ atelier.erreur = "aucune"
    /\ atelier.arguments.enfant /\ atelier.appel = "aucun" ) =>
    LET pvm == atelier.objet.pv_max
        bas == pvm \div 2
        pair == IF pvm % 2 = 0 \/ bas % 2 = 0 THEN bas ELSE bas + 1
        haut == IF pvm % 2 = 0 THEN bas ELSE bas + 1
    IN  /\ pvm >= 1
        /\ atelier.objet.pv \in { Max(1, pair), Max(1, haut) }
        /\ atelier.objet.maturite = 2 * atelier.objet.tps_entre_repro


\* update_insectes is about to call bouger() on the insect at idx
EnMouvement ==
  /\ phase = "insectes" /\ boucle = 4 /\ erreur = "aucune"
  /\ idx <= Len(par_insectes[k])

\* Position of parcel p in the matrix
Coordonnees(p) == << PosX(p), PosY(p) >>

EnSol == phase = "parcelle" /\ erreur = "aucune"

\* Parcel p was reached by arroser() during the current call of pas()
ArroseeCePas(p) == epandage[p].eau = pas

\* C32: in update_parcelle a parcel that was watered during the pas keeps its
\* humidity, a parcel that was not watered loses HUMIDITE_DESSECHEMENT with
\* a floor of 0, and between two calls of pas() no parcel carries the
\* watered flag.
C32_Dessechement ==
  /\ []((phase = "repos") => \A p \in Parcelles : ~sol[p].arrose)
  /\ [][EnSol =>
          /\ sol'[k].humidite =
               IF ArroseeCePas(k) THEN sol[k].humidite
               ELSE Max(sol[k].humidite - HUMIDITE_DESSECHEMENT, 0)
          /\ ~sol'[k].arrose]_vars

\* Between two calls of pas(): a parcel that was watered in the last pas
\* is wetter than at the start and a parcel never watered has dried to 0
C32_Temoin ==
  /\ phase = "repos" /\ pas >= 1
  /\ \E p \in Parcelles :
       epandage[p].eau = pas - 1 /\ sol[p].humidite > HUMIDITE_INIT
  /\ \E p \in Parcelles : epandage[p].eau = -1 /\ sol[p].humidite = 0


\* pas() is about to call update_dispositif on parcel k
EnDiffusion == phase = "dispositif" /\ erreur = "aucune"

\* Parcels reached by the device of parcel k, none without a device
Atteintes(p) ==
  IF dispositifs[p].portee = 0 THEN {} ELSE Voisines(p, dispositifs[p].portee)

\* C33: the humidity of every parcel is within [0, 1] and its remaining
\* fertilizer and insecticide within 0..5 in every reachable state;
\* mettre_engrais() and mettre_insecticide() set the counter to the duration
\* of the effect whatever it was before, a new application does not add up.
C33_BornesSol ==
  /\ [](\A p \in Parcelles :
          /\ sol[p].humidite \in 0..10
          /\ sol[p].engrais \in 0..DUREE_EFFET_ENGRAIS
          /\ sol[p].insecticide \in 0..DUREE_EFFET_INSECTICIDE)
  /\ [][EnDiffusion =>
          \A v \in Atteintes(k) :
            /\ "engrais" \in DispositifActif(dispositifs[k])
                 => sol'[v].engrais = DUREE_EFFET_ENGRAIS
            /\ "insecticide" \in DispositifActif(dispositifs[k])
                 => sol'[v].insecticide = DUREE_EFFET_INSECTICIDE]_vars

\* Insecticide has just been spread again on a parcel that still had some:
\* its plant counted two pas under insecticide since the first spreading
C33_Temoin ==
  /\ phase = "parcelle" /\ pas = 3
  /\ \E p \in Parcelles :
       /\ epandage[p].insecticide = pas
       /\ sol[p].insecticide = DUREE_EFFET_INSECTICIDE
       /\ \E i \in Elements(par_plantes[p]) :
            plantes[i].tps_sous_insecticide >= 2


\* C34: affecter(portee, parcelle, eau, engrais, insecticide) applies each
\* requested product to each parcel of parcelle.voisines(portee) and to
\* these parcels only: the soil of no other parcel changes, and the parcel
\* that carries the device is never reached by its own spreading.
C34_Diffusion ==
  requete.op = "affecter" /\ requete.erreur = "aucune" =>
    LET avant == requete.retour.avant
        apres == requete.retour.apres
        produits == requete.retour.produits
        voisines ==
          BagToSet(VoisinesGrille(grille, requete.parcelle,
                                  requete.portee).liste)
    IN  /\ \A c \in voisines :
             /\ apres[c].humidite =
                  IF "eau" \in produits
                  THEN Min(avant[c].humidite + HUMIDITE_ARROSAGE, 10)
                  ELSE avant[c].humidite
             /\ apres[c].arrose = ("eau" \in produits)
             /\ apres[c].engrais =
                  IF "engrais" \in produits THEN DUREE_EFFET_ENGRAIS
                  ELSE avant[c].engrais
             /\ apres[c].insecticide =
                  IF "insecticide" \in produits THEN DUREE_EFFET_INSECTICIDE
                  ELSE avant[c].insecticide
        /\ \A c \in grille.presentes \ voisines : apres[c] = avant[c]
        /\ apres[requete.parcelle] = avant[requete.parcelle]

\* The three products were spread with a range of 2 or more from a parcel
\* that carried products: some parcels were reached, some were out of range
C34_Temoin ==
  /\ requete.op = "affecter" /\ requete.erreur = "aucune"
  /\ requete.portee >= 2
  /\ requete.retour.produits = Intrants
  /\ requete.retour.avant[requete.parcelle].engrais > 0
  /\ \E c \in grille.presentes :
       requete.retour.apres[c] # requete.retour.avant[c]
  /\ \E c \in grille.presentes \ { requete.parcelle } :
       CopiesIn(c, requete.liste) = 0


\* The insects and the devices attached to a parcel are not older than pas
AgesInsectesDispositifs ==
  /\ \A p \in Parcelles :
       \A i \in Elements(par_insectes[p]) : insectes[i].age <= pas
  /\ \A p \in Parcelles :
       dispositifs[p].portee # 0 => dispositifs[p].age <= pas

\* C35: between two calls of pas(), the age of every entity attached to a
\* parcel, plant, insect or device, is at most the counter of pas() of the
\* garden.
C35_AgeBorne ==
  phase = "repos" =>
    /\ \A p \in Parcelles :
         \A i \in Elements(par_plantes[p]) : plantes[i].age <= pas
    /\ AgesInsectesDispositifs


\* Products of the programmes of device d that are active at age t
ProduitsProgrammes(d, t) ==
  { prog.produit :
      prog \in { q \in Elements(d.programmes) : ProgrammeActif(q, t) } }

\* C36: a device that stands on its parcel before the first pas() has the age
\* of the counter of the garden between two calls of pas() and up to its
\* update_dispositif, so that in the pas() that starts with the counter at t
\* it spreads exactly the products of its programmes active at age t; a
\* programme with debut 0 is active in the very first pas().
C36_AgeDispositif ==
  /\ [](\A p \in Parcelles :
          /\ dispositifs[p].portee # 0
          /\ phase \in { "repos", "plantes", "insectes", "dispositif" }
          => dispositifs[p].age = pas)
  /\ [][EnDiffusion /\ dispositifs[k].portee # 0 =>
          LET prevus == ProduitsProgrammes(dispositifs[k], pas)
          IN  \A v \in Atteintes(k) :
                /\ sol'[v].arrose <=> "eau" \in prevus
                /\ sol'[v].engrais = DUREE_EFFET_ENGRAIS
                     <=> "engrais" \in prevus
                /\ sol'[v].insecticide = DUREE_EFFET_INSECTICIDE
                     <=> "insecticide" \in prevus]_vars

\* In the first pas() the device, whose water programme starts at 0, has
\* watered the parcel next to it and spread nothing else
C36_Temoin ==
  /\ pas = 0 /\ phase = "parcelle"
  /\ \E p \in Parcelles :
       /\ dispositifs[p].portee # 0 /\ dispositifs[p].age = 0
       /\ \E i \in 1..Len(dispositifs[p].programmes) :
            /\ dispositifs[p].programmes[i].produit = "eau"
            /\ dispositifs[p].programmes[i].debut = 0
       /\ \A v \in Atteintes(p) :
            sol[v].arrose /\ sol[v].engrais = 0 /\ sol[v].insecticide = 0


\* The pas() in which the product was last spread on parcel p, -1 if never
DernierEpandage(p, produit) == epandage[p][produit]

\* C37: after fertilizer (or insecticide) is spread on a parcel in the
\* device sweep of the pas() numbered t, and as long as it is not spread
\* again, the counter of the parcel is positive during the plant and insect
\* sweeps of exactly the next 4 calls (t+1 .. t+4) and is 0 from call t+5
\* on: update_parcelle of call t already lowers the fresh counter from 5
\* to 4.
C37_DureeEffet ==
  \A p \in Parcelles : \A produit \in { "engrais", "insecticide" } :
    LET t == DernierEpandage(p, produit)
    IN  t >= 0 /\ phase \in { "plantes", "insectes" } =>
          /\ pas >= t + 1
          /\ pas = t + 1 => sol[p][produit] = 4
          /\ sol[p][produit] > 0 <=> pas \in (t + 1)..(t + 4)
          /\ pas >= t + 5 => sol[p][produit] = 0

\* Plant sweep of call t+5 after the only spreading of fertilizer, in call
\* t: the counter of the parcel is back to 0
C37_Temoin ==
  /\ phase = "plantes"
  /\ \E p \in Parcelles :
       /\ DernierEpandage(p, "engrais") >= 0
       /\ pas = DernierEpandage(p, "engrais") + 5
       /\ sol[p].engrais = 0


\* Sum of nb_recoltes_effectuees over the plants of all the parcels
RecoltesEffectuees ==
  LET faites == [i \in 1..Len(plantes) |-> plantes[i].nb_recoltes_effectuees]
      parParcelle == [p \in Parcelles |-> Somme(faites, par_plantes[p])]
  IN  Somme(parParcelle, [p \in 1..NbParcelles |-> p])

\* List a continues list b
Prolonge(a, b) == Len(a) >= Len(b) /\ SubSeq(a, 1, Len(b)) = b

\* C38: in every reachable state the length of the harvest log of the garden
\* is the sum of nb_recoltes_effectuees over the plants of all the parcels;
\* a plant is never taken out of its parcel and never changes parcel.
C38_JournalEtCompteurs ==
  /\ [](Len(recolte) = RecoltesEffectuees)
  /\ [][/\ \A p \in Parcelles : Prolonge(par_plantes'[p], par_plantes[p])
        /\ Len(plantes') >= Len(plantes)
        /\ \A i \in 1..Len(plantes) :
             plantes'[i].parcelle = plantes[i].parcelle]_vars

\* Two plants of two different parcels have each given a harvest
C38_Temoin ==
  /\ Len(recolte) >= 2
  /\ \E i, j \in 1..Len(plantes) :
       /\ plantes[i].parcelle # plantes[j].parcelle
       /\ plantes[i].nb_recoltes_effectuees >= 1
       /\ plantes[j].nb_recoltes_effectuees >= 1


\* update_insectes is about to call survivre() on the insect at idx
EnSurvie ==
  /\ phase = "insectes" /\ boucle = 1 /\ erreur = "aucune"
  /\ idx <= Len(par_insectes[k])

\* Number of insects on the parcels of the garden
NbInsectes(listes) ==
  Somme([p \in Parcelles |-> Len(listes[p])], [p \in 1..NbParcelles |-> p])

\* C39: the number of insects of the garden changes only by -1 when
\* survivre() removes the insect and by the size of the litter when
\* reproduire() returns children; bouger(), se_nourrir(), the plant sweep,
\* the device sweep and the soil sweep leave it unchanged.
C39_NombreInsectes ==
  [][IF EnSurvie
     THEN LET id == par_insectes[k][idx]
          IN  NbInsectes(par_insectes') =
                IF \E p \in Parcelles : id \in Elements(par_insectes'[p])
                THEN NbInsectes(par_insectes)
                ELSE NbInsectes(par_insectes) - 1
     ELSE IF EnReproduction
     THEN NbInsectes(par_insectes') =
            NbInsectes(par_insectes) + Len(obs_repro'.portee)
     ELSE NbInsectes(par_insectes') = NbInsectes(par_insectes)]_vars

\* After a death and a birth in the garden, an insect has just moved: it
\* stands on the second parcel, and the count is that of the living insects
C39_Temoin ==
  /\ obs_retour.methode = "bouger" /\ obs_retour.retour
  /\ phase = "insectes" /\ boucle = 4
  /\ Len(insectes) > 2
  /\ NbInsectes(par_insectes) < Len(insectes)
  /\ NbInsectes(par_insectes) =
       Cardinality({ i \in 1..Len(insectes) : Vivant(i) })


\* Insects appended to the list of parcel k since update_insectes began on it
Ajoutes == Elements(par_insectes[k]) \ Elements(instantane)

\* C40: every call of pas() ends, by a return or by an exception: the
\* children reproduire() appends to the list of insects while update_insectes
\* iterates over that list have never eaten, so that they are not disponible
\* in that loop, reproduire() returns no child for them and the loop reaches
\* the end of the list.
C40_Terminaison ==
  /\ [](phase = "insectes" /\ boucle = 3 /\ erreur = "aucune" =>
          \A i \in Ajoutes :
            insectes[i].dernier_repas = Inf /\ ~Disponible(insectes[i]))
  /\ [][EnReproduction /\ par_insectes[k][idx] \in Ajoutes =>
          obs_repro'.portee = << >> /\ par_insectes' = par_insectes]_vars
  /\ (phase # "repos") ~> (phase = "repos" \/ erreur # "aucune")

\* The loop of reproduire() calls has gone over an insect that was born in
\* this very loop
C40_Temoin ==
  /\ phase = "insectes" /\ boucle = 3 /\ erreur = "aucune"
  /\ \E i \in Ajoutes : "reproduire" \in Elements(appels_maj[i])

=============================================================================
